---- MODULE Spec2Model ----
(***************************************************************************)
(* A model of the gyre node engine (node.go), its peer mailboxes (peer)     *)
(* and its groups (group): a set of nodes that discover each other by       *)
(* beacon, handshake with HELLO and exchange JOIN / LEAVE / SHOUT /         *)
(* WHISPER / PING frames over per-peer mailboxes.  Every handler of the     *)
(* single-threaded actor is one atomic action.                              *)
(***************************************************************************)
EXTENDS Integers, Sequences, FiniteSets, TLC

\* ------------------------------------------------------------------ bounds
\* Number of facade commands (join, leave, shout, whisper, stop) the applications
\* issue; DeepCmd is their number in the longer runs of SpecDeep.
MaxCmd == 2
DeepCmd == 3
\* Number of transport errors (failed sends, failed connects) the network produces.
MaxFault == 1
\* Number of reaper ticks the nodes handle.
MaxTick == 1
\* Number of peer records a node creates.
MaxCreate == 2

\* --------------------------------------------------------- program constants
\* uint16 sequence counters and the byte status counter wrap at these values.
SeqMod == 65536
StatusMod == 256
\* peerEvasive and peerExpired, in seconds.
PeerEvasive == 3
PeerExpired == 5
\* reapInterval, in seconds.
ReapInterval == 1
\* The steps of the clock in a second.
Grain == 2
\* Capacity of the events channel.
EventsCap == 10000
\* The longest string putString writes.
StringMax == 255
\* zreDiscoveryPort, the default of n.beaconPort.
ZreDiscoveryPort == 5670
DynPortFrom == 49152
BeaconMax == 255
BeaconVersion == 1
SignalsCap == 50

\* ------------------------------------------------------------ the universe
Node == {"A", "B"}
Group == {"g1"}
Content == {"x"}
\* The endpoint a node's beacon announces and its HELLO carries.
\* Former is the identity (UUID) of an earlier run of node B: another
\* identity at B's address and port.
Former == "B0"

EndpointOf(n) == IF n = Former THEN "tcp://B" ELSE "tcp://" \o n

VARIABLES
    life,        \* [Node -> "new" | "running" | "stopping" | "stopped" | "panicked"]
    endpoint,    \* n.endpoint: "" until start
    status,      \* n.status: own change counter (byte)
    ownGroups,   \* n.ownGroups: names of the groups the node is in
    peers,       \* n.peers: identity -> peer record
    peerGroups,  \* n.peerGroups: group name -> identities of its members
    events,      \* the events channel of each node: events put and not yet read
    net,         \* net[s][d]: frames sent on s's mailbox for d, not yet read by d's inbox
    bye,         \* bye[s]: nodes that can still receive the zero-port beacon of stopped s
    created,     \* number of peer records the node has created so far
    name,        \* n.name
    headers,     \* n.headers: key -> value
    beaconPort,  \* n.beaconPort: 0 when UDP beaconing is disabled
    gossip,      \* n.gossip # nil
    replies,     \* the replies the actor has put on the replies channel so far
    beacon,      \* n.beacon: the fields of the Beacon and its signal workers
    udp,         \* the frames the signal workers of n.beacon have written
    clock,       \* the part of time.Now() at n below the second, in 1/Grain s
    bound,       \* n.bound: the inbox is bound
    port,        \* n.port: the port the inbox was bound to by start, 0 before
    timers,      \* reaper tickers registered with the reactor of n
    subs,        \* discovery channels (beacon signals, gossip responses) registered
    errs,        \* errs[n]: the positions in replies[n] of the replies with an error
    got,         \* got[n]: the maps the application has got from Headers()
    codec,       \* a message of the codec under test: the value, its frame, the value read back
    gyre,        \* the Gyre object of each application: its caches, its position in a call
    cmdsLeft,    \* facade commands the applications will still issue
    faults,      \* transport errors so far
    ticks        \* reaper ticks handled so far

vars == <<life, endpoint, status, ownGroups, peers, peerGroups, events, net, bye,
          created, name, headers, beaconPort, gossip, replies, beacon, udp,
          clock, bound, port, timers, subs, errs, got, codec, gyre, cmdsLeft,
          faults,
          ticks>>

\* What start and the configuration commands set up.
boot == <<bound, port, timers, subs, errs>>

\* The configuration of the nodes.
conf == <<name, headers, beaconPort, gossip, udp, clock, boot, got, codec, gyre>>

\* ------------------------------------------------------------------- maps
Has(m, k) == k \in DOMAIN m
Put(m, k, v) == [x \in DOMAIN m \cup {k} |-> IF x = k THEN v ELSE m[x]]
Del(m, k) == [x \in DOMAIN m \ {k} |-> m[x]]
EmptyMap == [x \in {} |-> 0]

\* All orders in which a Go range over a map with key set S can visit the keys.
RECURSIVE Orders(_)
Orders(S) ==
    IF S = {} THEN {<<>>}
    ELSE UNION {{<<x>> \o o : o \in Orders(S \ {x})} : x \in S}

\* ---------------------------------------------------------------- strings
\* A name or a header key is the character c repeated n times; the other
\* strings of the model (endpoints, group names) are short literals.
Str(c, k) == [c |-> c, n |-> k]

\* fmt.Sprintf("%.6s", identity): the name of a peer record before the peer's
\* HELLO: the first six bytes of the binary uuid.
DefaultName(id) == Str(<<"raw", id>>, 6)

\* fmt.Sprintf("%.6s", fmt.Sprintf("%X", uuid)): the name newNode gives a node,
\* the first six hex digits of its uuid.
NewName(n) == Str(<<"%X", n>>, 6)

\* putString followed by getString: a string with a one-byte length, cut to
\* StringMax bytes.
putString(str) == [str EXCEPT !.n = IF @ > StringMax THEN StringMax ELSE @]

\* ----------------------------------------------------------------- frames
Frame(kind) ==
    [kind |-> kind, sequence |-> 0, endpoint |-> "", groups |-> <<>>,
     status |-> 0, group |-> "", content |-> "", name |-> Str(<<>>, 0),
     headers |-> EmptyMap, said |-> <<>>]

\* msg.Clone: a copy of every field, the sequence included.
Clone(m) ==
    [kind |-> m.kind, sequence |-> m.sequence, endpoint |-> m.endpoint,
     groups |-> m.groups, status |-> m.status, group |-> m.group,
     content |-> m.content, name |-> m.name, headers |-> m.headers,
     said |-> m.said]

\* Marshal on the sender followed by Unmarshal on the receiver: the name and
\* the header keys of a HELLO go through putString, the header values are long
\* strings.  (No two keys of Keys become one on the wire.)  said is an
\* observer: the name and the headers the sender put into the message.
Wire(t) ==
    IF t.kind = "HELLO"
    THEN [t EXCEPT !.name = putString(@),
                   !.headers = [k \in {putString(x) : x \in DOMAIN @} |->
                                   @[CHOOSE x \in DOMAIN @ : putString(x) = k]],
                   !.said = <<[name |-> t.name, headers |-> t.headers]>>]
    ELSE t

\* ------------------------------------------------------------------- peer
\* newPeer: a record with zero counters, not connected, timers refreshed.
\* rxN, rxLast and helloAt observe the frames the record accepted (how many,
\* the sequence of the last one, the position of the last accepted HELLO among
\* them); txN, txLast, txFirst and txFirstSeq observe the frames that went out
\* on its mailbox (how many, the sequence of the last one, the kind and the
\* sequence of the first one); age observes the time since the last refresh,
\* pings the PING frames sent on the mailbox since then.  evasiveAt and
\* expiredAt are kept as the time left until the deadline, in 1/Grain s.
refresh(p) ==
    [p EXCEPT !.evasiveAt = PeerEvasive * Grain, !.expiredAt = PeerExpired * Grain,
              !.age = 0, !.pings = 0]

newPeer(identity) ==
    refresh([identity |-> identity, name |-> DefaultName(identity),
             headers |-> EmptyMap, endpoint |-> "", connected |-> FALSE,
             ready |-> FALSE, status |-> 0, sentSequence |-> 0,
             wantSequence |-> 0, evasiveAt |-> 0, expiredAt |-> 0,
             age |-> 0, pings |-> 0,
             rxN |-> 0, rxLast |-> 0, helloAt |-> 0, txN |-> 0, txLast |-> 0,
             txFirst |-> "NONE", txFirstSeq |-> 0])

connect(p, ep) == [p EXCEPT !.endpoint = ep, !.connected = TRUE, !.ready = FALSE]

disconnect(p) ==
    IF p.connected
    THEN [p EXCEPT !.endpoint = "", !.connected = FALSE, !.ready = FALSE]
    ELSE p

\* A faulty peer.send: the frame is stamped with the counter before the
\* counter is incremented.
sendStampFirst(p, t, fail) ==
    IF p.connected
    THEN LET seq == p.sentSequence
             q == [p EXCEPT !.sentSequence = (seq + 1) % SeqMod]
         IN  IF fail
             THEN [peer |-> disconnect(q), wire |-> <<>>, failed |-> 1]
             ELSE [peer |-> [q EXCEPT !.txN = p.txN + 1, !.txLast = seq,
                                      !.txFirst = IF p.txN = 0 THEN t.kind ELSE @,
                                      !.txFirstSeq = IF p.txN = 0 THEN seq ELSE @,
                                      !.pings = IF t.kind = "PING" THEN @ + 1 ELSE @],
                   wire |-> <<Wire([t EXCEPT !.sequence = seq])>>, failed |-> 0]
    ELSE [peer |-> p, wire |-> <<>>, failed |-> 0]

\* peer.send: stamp the next sequence number and transmit; a transport error
\* disconnects the mailbox.  The result is the record and the frames put on
\* the wire (none when not connected or when the send fails).
send(p, t, fail) ==
    IF p.connected
    THEN LET seq == (p.sentSequence + 1) % SeqMod
             q == [p EXCEPT !.sentSequence = seq]
         IN  IF fail
             THEN [peer |-> disconnect(q), wire |-> <<>>, failed |-> 1]
             ELSE [peer |-> [q EXCEPT !.txN = p.txN + 1, !.txLast = seq,
                                      !.txFirst = IF p.txN = 0 THEN t.kind ELSE @,
                                      !.txFirstSeq = IF p.txN = 0 THEN seq ELSE @,
                                      !.pings = IF t.kind = "PING" THEN @ + 1 ELSE @],
                   wire |-> <<Wire([t EXCEPT !.sequence = seq])>>, failed |-> 0]
    ELSE [peer |-> p, wire |-> <<>>, failed |-> 0]

\* A faulty peer.checkMessage: wantSequence advances and the frame is taken
\* whatever its sequence number.
checkMessageLax(p, t) ==
    [valid |-> TRUE,
     peer |-> [p EXCEPT !.wantSequence = (p.wantSequence + 1) % SeqMod,
                        !.rxN = p.rxN + 1, !.rxLast = t.sequence]]

\* peer.checkMessage: advance wantSequence, roll it back on a mismatch.
checkMessage(p, t) ==
    LET want == (p.wantSequence + 1) % SeqMod
        valid == want = t.sequence
    IN  [valid |-> valid,
         peer |-> IF valid
                  THEN [p EXCEPT !.wantSequence = want, !.rxN = p.rxN + 1,
                                 !.rxLast = t.sequence]
                  ELSE [p EXCEPT !.wantSequence = (want + SeqMod - 1) % SeqMod]]

\* ------------------------------------------------------------------ group
\* group.join and group.leave: change the member set and increment peer.status.
join(members, p) ==
    [members |-> members \cup {p.identity},
     peer |-> [p EXCEPT !.status = (p.status + 1) % StatusMod]]

leave(members, p) ==
    [members |-> members \ {p.identity},
     peer |-> [p EXCEPT !.status = (p.status + 1) % StatusMod]]

\* ------------------------------------------------------------------ events
Event(type, sender, group, msg) ==
    [type |-> type, sender |-> sender, name |-> NewName(sender),
     headers |-> EmptyMap, group |-> group, msg |-> msg]

\* An event about the peer record p: it carries peer.name.
EventOf(type, p, group, msg) ==
    [Event(type, p.identity, group, msg) EXCEPT !.name = p.name]

\* ----------------------------------------------------- the state of one node
\* The part of the state a handler of node n works on: its maps, its events
\* channel, the frames it puts on the wire (out), the transport errors it met,
\* whether it panicked, and the message object it handed to a send loop, as
\* that object is when the loop returns (arg).
Local(n) ==
    [peers |-> peers[n], peerGroups |-> peerGroups[n], events |-> events[n],
     out |-> [d \in Node |-> <<>>], created |-> created[n], failed |-> 0,
     panic |-> FALSE, arg |-> Frame("NONE"), clock |-> clock[n]]

\* A faulty emit: the event is put on the channel whatever its length.
emitGrow(st, e) == [st EXCEPT !.events = Append(@, e)]

\* select { case n.events <- e: default: }: the event is dropped when the
\* channel is full.
emit(st, e) ==
    IF Len(st.events) < EventsCap THEN [st EXCEPT !.events = Append(@, e)] ELSE st

\* peer.send on the record of identity id in n.peers.
peerSend(st, id, t, fail) ==
    LET r == send(st.peers[id], t, fail)
    IN  [st EXCEPT !.peers[id] = r.peer, !.out[id] = @ \o r.wire,
                   !.failed = @ + r.failed]

\* for _, peer := range n.peers { peer.send(msg.Clone(m)) } over the identities
\* ids; the sends to the identities of fails meet a transport error.
RECURSIVE sendAll(_, _, _, _)
sendAll(st, ids, m, fails) ==
    IF ids = {} THEN [st EXCEPT !.arg = m]
    ELSE LET id == CHOOSE x \in ids : TRUE
         IN  sendAll(peerSend(st, id, Clone(m), id \in fails), ids \ {id}, m, fails)

\* requirePeerGroup
requirePeerGroup(st, gname) ==
    IF Has(st.peerGroups, gname) THEN st
    ELSE [st EXCEPT !.peerGroups = Put(@, gname, {})]

\* joinPeerGroup
joinPeerGroup(st, id, gname) ==
    LET s1 == requirePeerGroup(st, gname)
        r == join(s1.peerGroups[gname], s1.peers[id])
    IN  emit([s1 EXCEPT !.peerGroups[gname] = r.members, !.peers[id] = r.peer],
             EventOf("JOIN", r.peer, gname, ""))

\* A faulty leavePeerGroup: the LEAVE event is emitted and peer.status
\* incremented, the peer stays a member of the group.
leavePeerGroupKeep(st, id, gname) ==
    LET s1 == requirePeerGroup(st, gname)
        r == leave(s1.peerGroups[gname], s1.peers[id])
    IN  emit([s1 EXCEPT !.peers[id] = r.peer],
             EventOf("LEAVE", r.peer, gname, ""))

\* leavePeerGroup
leavePeerGroup(st, id, gname) ==
    LET s1 == requirePeerGroup(st, gname)
        r == leave(s1.peerGroups[gname], s1.peers[id])
    IN  emit([s1 EXCEPT !.peerGroups[gname] = r.members, !.peers[id] = r.peer],
             EventOf("LEAVE", r.peer, gname, ""))

\* removePeer: EXIT event, leave every peer group, disconnect, delete.
removePeer(st, id) ==
    IF ~Has(st.peers, id) THEN st
    ELSE LET s1 == emit(st, EventOf("EXIT", st.peers[id], "", ""))
         IN  [s1 EXCEPT !.peerGroups = [g \in DOMAIN @ |-> @[g] \ {id}],
                        !.peers = Del(@, id)]

\* The HELLO a node sends as the first frame to a new peer; order is the order
\* in which the range over n.ownGroups visits the group names.
Hello(n, order) ==
    [Frame("HELLO") EXCEPT !.endpoint = endpoint[n], !.status = status[n],
                           !.groups = order, !.name = name[n],
                           !.headers = headers[n]]

\* A faulty requirePeer: the new record is connected and inserted, no HELLO
\* is sent on it.
requirePeerSilent(n, st, id, ep, order, fail, cfail) ==
    IF Has(st.peers, id) THEN [st |-> st, ok |-> TRUE]
    ELSE IF cfail
         THEN [st |-> [st EXCEPT !.failed = @ + 1], ok |-> FALSE]
         ELSE [st |-> [st EXCEPT !.peers = Put(@, id, connect(newPeer(id), ep)),
                                 !.created = @ + 1],
               ok |-> TRUE]

\* A faulty requirePeer: the records at the same endpoint are left connected.
requirePeerKeep(n, st, id, ep, order, fail, cfail) ==
    IF Has(st.peers, id) THEN [st |-> st, ok |-> TRUE]
    ELSE IF cfail
         THEN [st |-> [st EXCEPT !.failed = @ + 1], ok |-> FALSE]
         ELSE LET p == connect(newPeer(id), ep)
                  r == send(p, Hello(n, order), fail)
              IN  [st |-> [st EXCEPT !.peers = Put(@, id, r.peer),
                                     !.out[id] = @ \o r.wire,
                                     !.failed = @ + r.failed,
                                     !.created = @ + 1],
                   ok |-> TRUE]

\* requirePeer: find the record of identity id or create it: disconnect every
\* record at the same endpoint, connect, send HELLO, insert.  ok is FALSE when
\* connect fails (the err result).
requirePeer(n, st, id, ep, order, fail, cfail) ==
    IF Has(st.peers, id) THEN [st |-> st, ok |-> TRUE]
    ELSE LET purged == [st EXCEPT !.peers =
                            [x \in DOMAIN @ |->
                                IF @[x].endpoint = ep THEN disconnect(@[x]) ELSE @[x]]]
         IN  IF cfail
             THEN [st |-> [purged EXCEPT !.failed = @ + 1], ok |-> FALSE]
             ELSE LET p == connect(newPeer(id), ep)
                      r == send(p, Hello(n, order), fail)
                  IN  [st |-> [purged EXCEPT !.peers = Put(@, id, r.peer),
                                             !.out[id] = @ \o r.wire,
                                             !.failed = @ + r.failed,
                                             !.created = @ + 1],
                       ok |-> TRUE]

\* for _, group := range m.Groups { n.joinPeerGroup(peer, group) }
RECURSIVE joinAll(_, _, _)
joinAll(st, id, groups) ==
    IF groups = <<>> THEN st
    ELSE joinAll(joinPeerGroup(st, id, Head(groups)), id, Tail(groups))

\* case *msg.Hello: store the properties of the HELLO m into the record of the
\* peer id: peer.name = m.Name, and the headers of m are merged into
\* peer.headers.
hello(st, id, m) ==
    [st EXCEPT !.peers[id].name = m.name,
               !.peers[id].headers =
                   [k \in DOMAIN @ \cup DOMAIN m.headers |->
                       IF k \in DOMAIN m.headers THEN m.headers[k] ELSE @[k]]]

\* The ENTER event of the HELLO m: peer.name and a copy of the headers of m.
enter(st, id, m) ==
    [EventOf("ENTER", st.peers[id], "", "") EXCEPT !.headers = m.headers]

\* A faulty dispatch: on HELLO the peer joins the listed groups before the
\* ENTER event is put on the channel.
dispatchJoinFirst(n, st, id, m, fail) ==
    LET s1 ==
          CASE m.kind = "HELLO" ->
                 LET h == hello(st, id, m)
                     j == joinAll(h, id, m.groups)
                     e == emit(j, enter(h, id, m))
                 IN  [e EXCEPT !.peers[id].status = m.status,
                               !.peers[id].helloAt = e.peers[id].rxN]
            [] m.kind = "WHISPER" ->
                 emit(st, EventOf("WHISPER", st.peers[id], "", m.content))
            [] m.kind = "SHOUT" ->
                 emit(st, EventOf("SHOUT", st.peers[id], m.group, m.content))
            [] m.kind = "PING" -> peerSend(st, id, Frame("PING_OK"), fail)
            [] m.kind = "JOIN" ->
                 LET j == joinPeerGroup(st, id, m.group)
                 IN  [j EXCEPT !.panic = m.status # j.peers[id].status]
            [] m.kind = "LEAVE" ->
                 LET l == leavePeerGroup(st, id, m.group)
                 IN  [l EXCEPT !.panic = m.status # l.peers[id].status]
            [] OTHER -> st
    IN  IF s1.panic THEN s1 ELSE [s1 EXCEPT !.peers[id] = refresh(@)]

\* The second switch of recvFromPeer: process the accepted frame m of the
\* ready peer id, then refresh the peer's timers.
dispatch(n, st, id, m, fail) ==
    LET s1 ==
          CASE m.kind = "HELLO" ->
                 LET h == hello(st, id, m)
                     e == emit(h, enter(h, id, m))
                     j == joinAll(e, id, m.groups)
                 IN  [j EXCEPT !.peers[id].status = m.status,
                               !.peers[id].helloAt = j.peers[id].rxN]
            [] m.kind = "WHISPER" ->
                 emit(st, EventOf("WHISPER", st.peers[id], "", m.content))
            [] m.kind = "SHOUT" ->
                 emit(st, EventOf("SHOUT", st.peers[id], m.group, m.content))
            [] m.kind = "PING" -> peerSend(st, id, Frame("PING_OK"), fail)
            [] m.kind = "JOIN" ->
                 LET j == joinPeerGroup(st, id, m.group)
                 IN  [j EXCEPT !.panic = m.status # j.peers[id].status]
            [] m.kind = "LEAVE" ->
                 LET l == leavePeerGroup(st, id, m.group)
                 IN  [l EXCEPT !.panic = m.status # l.peers[id].status]
            [] OTHER -> st
    IN  IF s1.panic THEN s1 ELSE [s1 EXCEPT !.peers[id] = refresh(@)]

\* recvFromPeer: the frame m arrived on the inbox with routing identity id.
recvFromPeer(n, id, m, order, fail, cfail) ==
    LET st == Local(n)
        known == Has(st.peers, id)
        \* first switch: a HELLO may create the peer
        echo == m.kind = "HELLO" /\ known /\ ~st.peers[id].ready
                    /\ endpoint[n] = st.peers[id].endpoint
        s1 == IF m.kind = "HELLO"
              THEN LET s0 == IF known /\ st.peers[id].ready
                             THEN removePeer(st, id) ELSE st
                       r == requirePeer(n, s0, id, m.endpoint, order, fail, cfail)
                   IN  IF r.ok
                       THEN [st |-> [r.st EXCEPT !.peers[id].ready = TRUE], nil |-> FALSE]
                       ELSE [st |-> r.st, nil |-> TRUE]
              ELSE [st |-> st, nil |-> ~known]
    IN  IF echo THEN st
        ELSE IF s1.nil THEN s1.st
        ELSE IF ~s1.st.peers[id].ready THEN removePeer(s1.st, id)
        ELSE LET c == checkMessage(s1.st.peers[id], m)
                 s2 == [s1.st EXCEPT !.peers[id] = c.peer]
             IN  IF ~c.valid THEN s2
                 ELSE dispatch(n, s2, id, m, fail /\ m.kind = "PING")

\* A faulty recvFromBeacon: a beacon with port zero is ignored.
recvFromBeaconNoBye(n, id, port0, order, fail, cfail) ==
    LET st == Local(n)
    IN  IF port0 THEN st
        ELSE LET r == requirePeer(n, st, id, EndpointOf(id), order, fail, cfail)
             IN  IF r.ok THEN [r.st EXCEPT !.peers[id] = refresh(@)] ELSE r.st

\* recvFromBeacon: a beacon of identity id with a non-zero port creates the
\* peer if need be and refreshes it; a zero port removes the peer.
recvFromBeacon(n, id, port0, order, fail, cfail) ==
    LET st == Local(n)
    IN  IF port0 THEN removePeer(st, id)
        ELSE LET r == requirePeer(n, st, id, EndpointOf(id), order, fail, cfail)
             IN  IF r.ok THEN [r.st EXCEPT !.peers[id] = refresh(@)] ELSE r.st

\* time.Now().Unix() >= deadline.Unix(), for a deadline left away from now
\* and now phase after the full second: both times are cut to whole seconds,
\* the comparison holds as soon as the deadline lies in the second now is in.
due(left, phase) == left + phase < Grain

\* pingPeer over every peer (node.ping): remove the expired ones, PING the
\* evasive ones.
RECURSIVE ping(_, _, _)
ping(st, ids, fails) ==
    IF ids = {} THEN st
    ELSE LET id == CHOOSE x \in ids : TRUE
             p == st.peers[id]
             s1 == IF due(p.expiredAt, st.clock) THEN removePeer(st, id)
                   ELSE IF due(p.evasiveAt, st.clock)
                        THEN peerSend(st, id, Frame("PING"), id \in fails)
                        ELSE st
         IN  ping(s1, ids \ {id}, fails)

\* dt steps of the clock pass at the node: the time left until the deadlines
\* of its peers shrinks, their age grows.
elapse(st, dt) ==
    [st EXCEPT !.clock = (@ + dt) % Grain,
               !.peers = [id \in DOMAIN @ |->
        [@[id] EXCEPT !.evasiveAt = IF @ > dt THEN @ - dt ELSE 0,
                      !.expiredAt = IF @ > dt THEN @ - dt ELSE 0,
                      !.age = @ + dt]]]

\* terminate: disconnect every peer and delete it from n.peers.
terminate(st) == [st EXCEPT !.peers = EmptyMap]

\* ----------------------------------------------------------- facade commands
\* A faulty cmdJoin: the JOIN is sent whether the node is in the group or not.
cmdJoinAgain(n, g, fails) ==
    LET newStatus == (status[n] + 1) % StatusMod
        m == [Frame("JOIN") EXCEPT !.group = g, !.status = newStatus]
    IN  [st |-> sendAll(Local(n), DOMAIN peers[n], m, fails),
         status |-> newStatus, ownGroups |-> ownGroups[n] \cup {g}]

\* cmdJoin: only when not yet in the group: increment n.status, then send a
\* JOIN carrying it to every peer.
cmdJoin(n, g, fails) ==
    IF g \in ownGroups[n]
    THEN [st |-> Local(n), status |-> status[n], ownGroups |-> ownGroups[n]]
    ELSE LET newStatus == (status[n] + 1) % StatusMod
             m == [Frame("JOIN") EXCEPT !.group = g, !.status = newStatus]
         IN  [st |-> sendAll(Local(n), DOMAIN peers[n], m, fails),
              status |-> newStatus, ownGroups |-> ownGroups[n] \cup {g}]

\* A faulty cmdLeave: the LEAVE is built and sent before n.status is
\* incremented.
cmdLeaveSendFirst(n, g, fails) ==
    IF g \notin ownGroups[n]
    THEN [st |-> Local(n), status |-> status[n], ownGroups |-> ownGroups[n]]
    ELSE LET m == [Frame("LEAVE") EXCEPT !.group = g, !.status = status[n]]
         IN  [st |-> sendAll(Local(n), DOMAIN peers[n], m, fails),
              status |-> (status[n] + 1) % StatusMod,
              ownGroups |-> ownGroups[n] \ {g}]

\* cmdLeave: only when in the group: increment n.status, send a LEAVE carrying
\* it to every peer, then delete the group from n.ownGroups.
cmdLeave(n, g, fails) ==
    IF g \notin ownGroups[n]
    THEN [st |-> Local(n), status |-> status[n], ownGroups |-> ownGroups[n]]
    ELSE LET newStatus == (status[n] + 1) % StatusMod
             m == [Frame("LEAVE") EXCEPT !.group = g, !.status = newStatus]
         IN  [st |-> sendAll(Local(n), DOMAIN peers[n], m, fails),
              status |-> newStatus, ownGroups |-> ownGroups[n] \ {g}]

\* A faulty cmdShout: the SHOUT goes to every peer, member of the group or not.
cmdShoutAll(n, g, c, fails) ==
    IF Has(peerGroups[n], g)
    THEN sendAll(Local(n), DOMAIN peers[n],
                 [Frame("SHOUT") EXCEPT !.group = g, !.content = c], fails)
    ELSE Local(n)

\* cmdShout: group.send of a SHOUT to the members of n.peerGroups[g], if the
\* group is known.
cmdShout(n, g, c, fails) ==
    IF Has(peerGroups[n], g)
    THEN sendAll(Local(n), peerGroups[n][g],
                 [Frame("SHOUT") EXCEPT !.group = g, !.content = c], fails)
    ELSE Local(n)

\* cmdWhisper: a WHISPER to the peer, dropped if the peer is unknown.
cmdWhisper(n, id, c, fail) ==
    IF Has(peers[n], id)
    THEN peerSend(Local(n), id, [Frame("WHISPER") EXCEPT !.content = c], fail)
    ELSE Local(n)

\* ------------------------------------------------------------------ beacon
\* Byte strings are sequences of numbers below 256.
HasPrefix(b, prefix) ==
    /\ Len(prefix) <= Len(b)
    /\ SubSeq(b, 1, Len(prefix)) = prefix

Bytes(k, x) == [i \in 1..k |-> x]

\* []byte("ZRE") and a prefix no node sends.
ZRE == <<90, 82, 69>>
ZRX == <<90, 82, 88>>

\* The 16 bytes of the UUID of a node.
Uuid(p) == Bytes(16, IF p = "A" THEN 65 ELSE IF p = "B" THEN 66 ELSE 48)

\* binary.Write of the fields of an aBeacon, big endian: protocol, version,
\* UUID, port.
aBeacon(protocol, version, uuid, portno) ==
    protocol \o <<version>> \o uuid \o <<portno \div 256, portno % 256>>

\* The frame n.beacon transmits: the beacon of start, the zero-port beacon of
\* stop, or nothing.
FrameOf(p, transmit) ==
    CASE transmit = "port" -> aBeacon(ZRE, BeaconVersion, Uuid(p), DynPortFrom)
      [] transmit = "zero" -> aBeacon(ZRE, BeaconVersion, Uuid(p), 0)
      [] OTHER -> <<>>

\* One field of a received beacon, as binary.Read leaves it: size bytes
\* after the first off bytes, or zeroes when the buffer is too short.
Field(buf, off, size) ==
    IF Len(buf) >= off + size THEN SubSeq(buf, off + 1, off + size)
    ELSE Bytes(size, 0)

\* recvFromBeacon, the decoding of s.Transmit.
Decode(buf) ==
    [protocol |-> Field(buf, 0, 3), version |-> Field(buf, 3, 1)[1],
     uuid |-> Field(buf, 4, 16),
     port |-> 256 * Field(buf, 20, 2)[1] + Field(buf, 20, 2)[2]]

\* fmt.Sprintf("%X", b.UUID), as the identity of the node with that UUID.
IdentityOf(uuid) ==
    IF \E p \in Node \cup {Former} : Uuid(p) = uuid
    THEN CHOOSE p \in Node \cup {Former} : Uuid(p) = uuid
    ELSE "?"

\* &Signal{addr, buff[:n]}; size is the length of the datagram the bytes
\* were read from.
Sig(addr, transmit, size) == [addr |-> addr, transmit |-> transmit, size |-> size]

\* beacon.New: nothing to transmit, no filter, no worker, an empty signals
\* channel; pend is the datagram a listener has read and not yet passed on.
\* closed tells that the signals channel is closed, sending that the listener
\* has found !b.terminated and is about to send, panic that a goroutine of the
\* beacon has sent on the closed channel.
NewBeacon ==
    [transmit |-> "", terminated |-> FALSE, workers |-> 0, filter |-> <<>>,
     noecho |-> FALSE, pend |-> <<>>, signals |-> <<>>, closed |-> FALSE,
     sending |-> FALSE, panic |-> FALSE]

Subscribe(b, filter) == [b EXCEPT !.filter = filter]

NoEcho(b) == [b EXCEPT !.noecho = TRUE]

Silence(b) == [b EXCEPT !.transmit = ""]

\* A faulty listen: own frames are passed on though noecho is set.
listenEcho(b, own, d) ==
    LET n == IF Len(d.bytes) > BeaconMax THEN BeaconMax ELSE Len(d.bytes)
        buff == SubSeq(d.bytes, 1, n)
    IN  IF n > BeaconMax \/ n = 0 THEN b
        ELSE [b EXCEPT !.pend = <<[sig |-> Sig(d.from, buff, Len(d.bytes)),
                                   send |-> HasPrefix(buff, b.filter)]>>]

\* Beacon.listen from ReadFrom to the decision: the datagram d is read into
\* a buffer of beaconMax bytes, n is the number of bytes read; own is the
\* frame b.transmit stands for.
listen(b, own, d) ==
    LET n == IF Len(d.bytes) > BeaconMax THEN BeaconMax ELSE Len(d.bytes)
        buff == SubSeq(d.bytes, 1, n)
        hit == HasPrefix(buff, b.filter)
    IN  IF n > BeaconMax \/ n = 0 THEN b
        ELSE [b EXCEPT !.pend = <<[sig |-> Sig(d.from, buff, Len(d.bytes)),
                                   send |-> IF hit /\ b.noecho THEN buff # own
                                            ELSE hit]>>]

\* Beacon.listen, the end of the iteration: the signal is put on the channel
\* unless the beacon is terminated or the channel is full.
pass(b) ==
    IF b.pend[1].send /\ ~b.terminated /\ Len(b.signals) < SignalsCap
    THEN [b EXCEPT !.signals = Append(@, b.pend[1].sig), !.pend = <<>>]
    ELSE [b EXCEPT !.pend = <<>>]

\* Beacon.Publish: under the lock, set the frame to transmit; start() then
\* spawns one more signal worker, whose first tick is one interval away.
Publish(b, transmit) == [b EXCEPT !.transmit = transmit, !.workers = @ + 1]

\* Beacon.Close up to the release of the lock: terminated is set and the
\* signals channel is closed.
Close(b) == [b EXCEPT !.terminated = TRUE, !.closed = TRUE]

\* Beacon.listen, if send && !b.terminated: b.terminated is read without the
\* lock; gone is the value the read yields.
check(b, gone) ==
    IF b.pend[1].send /\ ~gone THEN [b EXCEPT !.sending = TRUE]
    ELSE [b EXCEPT !.pend = <<>>]

\* Beacon.listen, select { case b.signals <- s: default: }: a send on a
\* closed channel panics; otherwise the signal is put unless the channel is
\* full.
put(b) ==
    IF b.closed THEN [b EXCEPT !.panic = TRUE, !.sending = FALSE, !.pend = <<>>]
    ELSE IF Len(b.signals) < SignalsCap
         THEN [b EXCEPT !.signals = Append(@, b.pend[1].sig), !.sending = FALSE,
                        !.pend = <<>>]
         ELSE [b EXCEPT !.sending = FALSE, !.pend = <<>>]

\* node.stop: publish the zero-port frame, sleep, close the beacon.
stop(b) == Close(Publish(b, "zero"))

\* ------------------------------------------------------------------- codec
\* The messages as the codec has them: strings and contents are byte strings,
\* Headers maps keys to values.  Every kind has all the fields; those that
\* are not its own are empty.
Signature == 43681
Version == 2

Ids == [HELLO |-> 1, WHISPER |-> 2, SHOUT |-> 3, JOIN |-> 4, LEAVE |-> 5,
        PING |-> 6, PING_OK |-> 7]

Msg(kind) ==
    [kind |-> kind, sequence |-> 0, Endpoint |-> <<>>, Groups |-> <<>>,
     Status |-> 0, Name |-> <<>>, Headers |-> EmptyMap, Group |-> <<>>,
     Content |-> <<>>]

\* A faulty binary.Write: the least significant byte comes first.
RECURSIVE LittleEndian(_, _)
LittleEndian(x, k) ==
    IF k = 0 THEN <<>> ELSE <<x % 256>> \o LittleEndian(x \div 256, k - 1)

\* binary.Write of an unsigned number of k bytes, big endian.
RECURSIVE BigEndian(_, _)
BigEndian(x, k) ==
    IF k = 0 THEN <<>> ELSE BigEndian(x \div 256, k - 1) \o <<x % 256>>

\* The number in a big-endian byte string.
RECURSIVE Num(_)
Num(b) ==
    IF b = <<>> THEN 0 ELSE 256 * Num(SubSeq(b, 1, Len(b) - 1)) + b[Len(b)]

\* binary.Read of k bytes from the buffer: rest is the buffer afterwards; a
\* buffer that is too short is used up and the value stays zero.
Rd(buf, k) ==
    IF Len(buf) >= k
    THEN [val |-> SubSeq(buf, 1, k), rest |-> SubSeq(buf, k + 1, Len(buf))]
    ELSE [val |-> Bytes(k, 0), rest |-> <<>>]

\* putString: one byte of size, then at most StringMax bytes.
PutString(str) ==
    LET size == IF Len(str) > StringMax THEN StringMax ELSE Len(str)
    IN  <<size % 256>> \o SubSeq(str, 1, size)

getString(buf) ==
    LET size == Rd(buf, 1)
    IN  Rd(size.rest, Num(size.val))

\* putLongString: four bytes of size, then the bytes.
putLongString(str) == BigEndian(Len(str), 4) \o str

getLongString(buf) ==
    LET size == Rd(buf, 4)
    IN  Rd(size.rest, Num(size.val))

\* putBytes: eight bytes of size, then the bytes.
putBytes(data) == BigEndian(Len(data), 8) \o data

getBytes(buf) ==
    LET size == Rd(buf, 8)
    IN  Rd(size.rest, Num(size.val))

RECURSIVE putGroups(_)
putGroups(groups) ==
    IF groups = <<>> THEN <<>>
    ELSE putLongString(Head(groups)) \o putGroups(Tail(groups))

\* for key, val := range h.Headers, in the order the range visits the keys.
RECURSIVE putHeaders(_, _)
putHeaders(h, order) ==
    IF order = <<>> THEN <<>>
    ELSE PutString(Head(order)) \o putLongString(h[Head(order)])
             \o putHeaders(h, Tail(order))

\* Marshal of each kind: signature, id, version, sequence, then the fields.
Marshal(m, order) ==
    BigEndian(Signature, 2) \o <<Ids[m.kind]>> \o <<Version>>
        \o BigEndian(m.sequence, 2)
        \o CASE m.kind = "HELLO" ->
                   PutString(m.Endpoint)
                       \o BigEndian(Len(m.Groups), 4) \o putGroups(m.Groups)
                       \o <<m.Status>>
                       \o PutString(m.Name)
                       \o BigEndian(Cardinality(DOMAIN m.Headers), 4)
                       \o putHeaders(m.Headers, order)
             [] m.kind = "WHISPER" -> putBytes(m.Content)
             [] m.kind = "SHOUT" -> PutString(m.Group) \o putBytes(m.Content)
             [] m.kind \in {"JOIN", "LEAVE"} -> PutString(m.Group) \o <<m.Status>>
             [] OTHER -> <<>>

\* for ; groupsSize != 0; groupsSize-- { append(h.Groups, getLongString) }
RECURSIVE getGroups(_, _, _)
getGroups(buf, k, acc) ==
    IF k = 0 THEN [val |-> acc, rest |-> buf]
    ELSE LET g == getLongString(buf)
         IN  getGroups(g.rest, k - 1, Append(acc, g.val))

\* for ; headersSize != 0; headersSize-- { h.Headers[key] = val }
RECURSIVE getHeaders(_, _, _)
getHeaders(buf, k, acc) ==
    IF k = 0 THEN [val |-> acc, rest |-> buf]
    ELSE LET key == getString(buf)
             val == getLongString(key.rest)
         IN  getHeaders(val.rest, k - 1, Put(acc, key.val, val.val))

\* msg.Unmarshal and the Unmarshal of the kind: ok is FALSE when an error is
\* returned (an id that is no kind ends in a call on a nil message).
Unmarshal(frame) ==
    LET sig == Rd(frame, 2)
        id == Rd(sig.rest, 1)
        ver == Rd(id.rest, 1)
        seq == Rd(ver.rest, 2)
        kinds == {k \in DOMAIN Ids : Ids[k] = id.val[1]}
    IN  IF Num(sig.val) # Signature \/ kinds = {} \/ ver.val[1] # Version
        THEN [ok |-> FALSE, m |-> Msg("NONE")]
        ELSE LET kind == CHOOSE k \in kinds : TRUE
                 m == [Msg(kind) EXCEPT !.sequence = Num(seq.val)]
             IN  CASE kind = "HELLO" ->
                        LET ep == getString(seq.rest)
                            gn == Rd(ep.rest, 4)
                            gs == getGroups(gn.rest, Num(gn.val), <<>>)
                            st == Rd(gs.rest, 1)
                            nm == getString(st.rest)
                            hn == Rd(nm.rest, 4)
                            hs == getHeaders(hn.rest, Num(hn.val), EmptyMap)
                        IN  [ok |-> TRUE,
                             m |-> [m EXCEPT !.Endpoint = ep.val, !.Groups = gs.val,
                                             !.Status = st.val[1], !.Name = nm.val,
                                             !.Headers = hs.val]]
                   [] kind = "WHISPER" ->
                        [ok |-> TRUE, m |-> [m EXCEPT !.Content = getBytes(seq.rest).val]]
                   [] kind = "SHOUT" ->
                        LET g == getString(seq.rest)
                        IN  [ok |-> TRUE,
                             m |-> [m EXCEPT !.Group = g.val,
                                             !.Content = getBytes(g.rest).val]]
                   [] kind \in {"JOIN", "LEAVE"} ->
                        LET g == getString(seq.rest)
                        IN  [ok |-> TRUE,
                             m |-> [m EXCEPT !.Group = g.val,
                                             !.Status = Rd(g.rest, 1).val[1]]]
                   [] OTHER -> [ok |-> TRUE, m |-> m]

\* msg.Clone: a new message of the kind of t, the fields assigned one by one.
\* The Groups of a new Hello is nil, so the assignment cloned.Groups[idx] = str
\* of the first group is out of range: panic.  same names the fields whose
\* object (map, backing array) the clone has in common with t: the map of the
\* clone is the one NewHello made, its Content is appended to nil.
msgClone(t) ==
    LET to(m) == [panic |-> FALSE, m |-> [m EXCEPT !.sequence = t.sequence],
                  same |-> {}]
    IN  CASE t.kind = "HELLO" ->
               IF t.Groups # <<>>
               THEN [panic |-> TRUE, m |-> Msg("NONE"), same |-> {}]
               ELSE to([Msg("HELLO") EXCEPT !.Endpoint = t.Endpoint,
                                            !.Status = t.Status, !.Name = t.Name,
                                            !.Headers = t.Headers])
          [] t.kind = "WHISPER" -> to([Msg("WHISPER") EXCEPT !.Content = t.Content])
          [] t.kind = "SHOUT" ->
               to([Msg("SHOUT") EXCEPT !.Group = t.Group, !.Content = t.Content])
          [] t.kind \in {"JOIN", "LEAVE"} ->
               to([Msg(t.kind) EXCEPT !.Group = t.Group, !.Status = t.Status])
          [] OTHER -> to(Msg(t.kind))

\* No message under test.  copy is the result of msg.Clone of m.
NoCodec == [phase |-> "none", m |-> Msg("NONE"), wire |-> <<>>,
            out |-> [ok |-> FALSE, m |-> Msg("NONE")],
            copy |-> [panic |-> FALSE, m |-> Msg("NONE"), same |-> {}]]

\* ------------------------------------------------------- facade commands
\* The payloads the applications pass: a short name and one longer than
\* StringMax, a short header key and one longer than StringMax, the two kinds
\* of beacon port.
Names == {Str(<<"app", "n">>, 3), Str(<<"app", "n">>, StringMax + 1)}
Keys == {Str(<<"app", "k">>, 1), Str(<<"app", "l">>, StringMax + 1)}
Values == {"v"}
Ports == {0, ZreDiscoveryPort}

cmd(c) == [cmd |-> c, name |-> Str(<<>>, 0), key |-> Str(<<>>, 0), value |-> "",
           port |-> 0]

\* The commands of recvFromAPI that configure or query the node.
Commands ==
    {cmd(c) : c \in {"UUID", "NAME", "SET VERBOSE", "SET INTERVAL",
                     "SET INTERFACE", "SET ENDPOINT", "GOSSIP BIND",
                     "GOSSIP PORT", "GOSSIP CONNECT", "DUMP", "ADDR", "HEADERS"}}
    \cup {[cmd("SET NAME") EXCEPT !.name = x] : x \in Names}
    \cup {[cmd("SET HEADER") EXCEPT !.key = k, !.value = v] : k \in Keys, v \in Values}
    \cup {[cmd("SET PORT") EXCEPT !.port = x] : x \in Ports}
    \cup {[cmd("HEADER") EXCEPT !.key = k] : k \in Keys}

\* What the calls into zmq and into the gossip library do: new, bind, send and
\* recv tell whether zgossip.New, bind, SendCmd and RecvResp return an error;
\* nilcall is what a method of the gossip engine does when n.gossip is nil.
Ext == [new : BOOLEAN, bind : BOOLEAN, send : BOOLEAN, recv : BOOLEAN,
        nilcall : {"panic", "err", "ok"}]

\* The part of the node recvFromAPI works on; panic when the handler panics.
Api(n) ==
    [name |-> name[n], headers |-> headers[n], beaconPort |-> beaconPort[n],
     gossip |-> gossip[n], endpoint |-> endpoint[n], bound |-> bound[n],
     replies |-> replies[n], got |-> got[n], err |-> FALSE, panic |-> FALSE]

\* A map value in the hands of the application: obj tells which map object
\* it refers to, the map n.headers of the node ("node") or an object of its
\* own ("copy"); at is what the map held when the application got it.
Ref(h) == [obj |-> "node", at |-> h]

\* What the application reads in the map value g when the headers of the
\* node are h.
MapOf(g, h) == IF g.obj = "node" THEN h ELSE g.at

\* n.replies <- &reply{cmd: tag, ...}
reply(st, tag) == [st EXCEPT !.replies = Append(@, tag)]

\* gossipStart: disable beaconing, create the gossip engine if there is none.
gossipStart(st, ext) ==
    IF st.gossip THEN [st EXCEPT !.beaconPort = 0]
    ELSE [st EXCEPT !.beaconPort = 0, !.gossip = ~ext.new, !.err = ext.new]

\* n.gossip.SendCmd(...) and n.gossip.RecvResp(...): err tells whether the
\* call returns an error.
gossipCall(st, fails, ext) ==
    IF st.gossip THEN [st EXCEPT !.err = fails]
    ELSE [st EXCEPT !.err = ext.nilcall = "err", !.panic = ext.nilcall = "panic"]

\* recvFromAPI, the commands that configure or query the node.
recvFromAPI(n, c, ext) ==
    LET st == Api(n)
    IN  CASE c.cmd = "UUID" -> reply(st, "UUID")
          [] c.cmd = "NAME" -> reply(st, "NAME")
          [] c.cmd = "SET NAME" -> [st EXCEPT !.name = c.name]
          [] c.cmd = "SET HEADER" -> [st EXCEPT !.headers = Put(@, c.key, c.value)]
          [] c.cmd = "SET PORT" -> [st EXCEPT !.beaconPort = c.port]
          [] c.cmd = "SET ENDPOINT" ->
               LET g == gossipStart(st, ext)
               IN  IF g.err THEN reply(g, "SET ENDPOINT")
                   ELSE IF ext.bind
                        THEN reply([g EXCEPT !.endpoint = EndpointOf(n), !.err = TRUE],
                                   "SET ENDPOINT")
                        ELSE reply([g EXCEPT !.endpoint = EndpointOf(n),
                                             !.bound = TRUE,
                                             !.beaconPort = 0], "SET ENDPOINT")
          [] c.cmd \in {"GOSSIP BIND", "GOSSIP CONNECT"} ->
               LET g == gossipStart(st, ext)
               IN  IF g.err THEN reply(g, c.cmd)
                   ELSE reply(gossipCall(g, ext.send, ext), c.cmd)
          [] c.cmd = "GOSSIP PORT" ->
               LET s1 == gossipCall(st, ext.send, ext)
                   s2 == gossipCall(s1, ext.recv, ext)
               IN  IF s1.panic THEN s1
                   ELSE IF s1.err THEN reply(s1, "GOSSIP PORT")
                   ELSE IF s2.panic THEN s2
                   ELSE reply(s2, "GOSSIP PORT")
          [] c.cmd = "ADDR" ->
               IF st.beaconPort > 0 THEN reply(st, "ADDR")
               ELSE IF st.endpoint = "" THEN reply([st EXCEPT !.err = TRUE], "HEADER")
               ELSE reply(st, "ADDR")
          [] c.cmd = "HEADER" ->
               reply([st EXCEPT !.err = ~Has(st.headers, c.key)], "HEADER")
          [] c.cmd = "HEADERS" ->
               [reply(st, "HEADER") EXCEPT !.got = Append(@, Ref(st.headers))]
          [] OTHER -> st

\* ------------------------------------------------------------------ actions
Active(n) == life[n] \in {"running", "stopping"}

\* The node-local result st of a handler of n becomes the new state; net0 is
\* the network before the handler's own frames are added.
Commit(n, st, net0) ==
    /\ faults + st.failed <= MaxFault
    /\ st.created <= MaxCreate
    /\ created' = [created EXCEPT ![n] = st.created]
    /\ faults' = faults + st.failed
    /\ peers' = [peers EXCEPT ![n] = st.peers]
    /\ peerGroups' = [peerGroups EXCEPT ![n] = st.peerGroups]
    /\ events' = [events EXCEPT ![n] = st.events]
    /\ net' = [s \in Node |-> [d \in Node |->
                 IF s = n THEN net0[s][d] \o st.out[d] ELSE net0[s][d]]]

Fails == {F \in SUBSET Node : Cardinality(F) <= MaxFault - faults}

\* cmdStart when every call into zmq, the beacon and the system succeeds:
\* register the reaper ticker, bind the inbox to an ephemeral port unless it
\* is bound, then start beaconing (the beacon gives the node its endpoint) or
\* publish the endpoint by gossip, and reply.
Start(n) ==
    /\ life[n] = "new"
    /\ timers' = [timers EXCEPT ![n] = @ + 1]
    /\ bound' = [bound EXCEPT ![n] = TRUE]
    /\ port' = [port EXCEPT ![n] = IF bound[n] THEN @ ELSE DynPortFrom]
    /\ IF beaconPort[n] > 0
       THEN IF endpoint[n] # ""
            THEN \* panic("Endpoint is already set")
                 /\ life' = [life EXCEPT ![n] = "panicked"]
                 /\ beacon' = [beacon EXCEPT ![n] =
                                  Publish(Subscribe(NoEcho(@), ZRE), "port")]
                 /\ UNCHANGED <<endpoint, replies, cmdsLeft, subs, errs>>
            ELSE /\ life' = [life EXCEPT ![n] = "running"]
                 /\ endpoint' = [endpoint EXCEPT ![n] = EndpointOf(n)]
                 /\ beacon' = [beacon EXCEPT ![n] =
                                  Publish(Subscribe(NoEcho(@), ZRE), "port")]
                 /\ subs' = [subs EXCEPT ![n] = @ + 1]
                 /\ replies' = [replies EXCEPT ![n] = Append(@, "START")]
                 /\ UNCHANGED <<cmdsLeft, errs>>
       ELSE /\ endpoint' = [endpoint EXCEPT ![n] = IF @ = "" THEN EndpointOf(n) ELSE @]
            /\ replies' = [replies EXCEPT ![n] = Append(@, "START")]
            /\ IF gossip[n]
               THEN /\ life' = [life EXCEPT ![n] = "running"]
                    /\ subs' = [subs EXCEPT ![n] = @ + 1]
                    /\ UNCHANGED <<cmdsLeft, errs>>
               ELSE \* the error reply; the application may start again
                    /\ cmdsLeft > 0
                    /\ cmdsLeft' = cmdsLeft - 1
                    /\ errs' = [errs EXCEPT ![n] = @ \cup {Len(replies[n]) + 1}]
                    /\ UNCHANGED <<life, subs>>
            /\ UNCHANGED beacon
    /\ UNCHANGED <<name, headers, beaconPort, gossip, udp, clock, got, codec, gyre, status,
                   ownGroups, peers, peerGroups, events, net, bye, created, faults,
                   ticks>>

\* The steps of cmdStart that can fail: the bind of the inbox, Beacon.Publish,
\* os.Hostname.
Steps == {"bind", "publish", "hostname"}

\* cmdStart when the step named step returns an error: the reaper ticker is
\* registered, n.start() returns at the step, the reply carries the error.
\* A failed bind still assigns its port result to n.port: 0, or the port it
\* tried last.
StartFail(n, step) ==
    /\ life[n] = "new"
    /\ cmdsLeft > 0
    /\ cmdsLeft' = cmdsLeft - 1
    /\ timers' = [timers EXCEPT ![n] = @ + 1]
    /\ replies' = [replies EXCEPT ![n] = Append(@, "START")]
    /\ errs' = [errs EXCEPT ![n] = @ \cup {Len(replies[n]) + 1}]
    /\ CASE step = "bind" ->
              /\ ~bound[n]
              /\ \E x \in {0, DynPortFrom} : port' = [port EXCEPT ![n] = x]
              /\ UNCHANGED <<bound, beacon>>
         [] step = "publish" ->
              /\ beaconPort[n] > 0
              /\ bound' = [bound EXCEPT ![n] = TRUE]
              /\ port' = [port EXCEPT ![n] = IF bound[n] THEN @ ELSE DynPortFrom]
              /\ beacon' = [beacon EXCEPT ![n] =
                               [Subscribe(NoEcho(@), ZRE) EXCEPT !.transmit = "port"]]
         [] step = "hostname" ->
              /\ beaconPort[n] = 0
              /\ endpoint[n] = ""
              /\ bound' = [bound EXCEPT ![n] = TRUE]
              /\ port' = [port EXCEPT ![n] = IF bound[n] THEN @ ELSE DynPortFrom]
              /\ UNCHANGED beacon
    /\ UNCHANGED <<name, headers, beaconPort, gossip, udp, clock, got, codec, gyre, subs, life,
                   endpoint, status, ownGroups, peers, peerGroups, events, net,
                   bye, created, faults, ticks>>

\* cmdStart on a node that is running: one more reaper ticker, no bind, then
\* n.start() as before.
StartAgain(n) ==
    /\ life[n] = "running"
    /\ cmdsLeft > 0
    /\ cmdsLeft' = cmdsLeft - 1
    /\ timers' = [timers EXCEPT ![n] = @ + 1]
    /\ IF beaconPort[n] > 0
       THEN \* the endpoint is set: panic("Endpoint is already set")
            /\ life' = [life EXCEPT ![n] = "panicked"]
            /\ beacon' = [beacon EXCEPT ![n] =
                             Publish(Subscribe(NoEcho(@), ZRE), "port")]
            /\ UNCHANGED <<replies, subs, errs>>
       ELSE /\ replies' = [replies EXCEPT ![n] = Append(@, "START")]
            /\ IF gossip[n]
               THEN /\ subs' = [subs EXCEPT ![n] = @ + 1]
                    /\ UNCHANGED errs
               ELSE /\ errs' = [errs EXCEPT ![n] = @ \cup {Len(replies[n]) + 1}]
                    /\ UNCHANGED subs
            /\ UNCHANGED <<life, beacon>>
    /\ UNCHANGED <<name, headers, beaconPort, gossip, udp, clock, got, codec, gyre, bound,
                   port, endpoint, status, ownGroups, peers, peerGroups, events,
                   net, bye, created, faults, ticks>>

Join(n, g) ==
    /\ life[n] \in {"new", "running"}
    /\ cmdsLeft > 0
    /\ cmdsLeft' = cmdsLeft - 1
    /\ \E fails \in Fails :
         LET r == cmdJoin(n, g, fails)
         IN  /\ r.st.failed = Cardinality(fails)
             /\ status' = [status EXCEPT ![n] = r.status]
             /\ ownGroups' = [ownGroups EXCEPT ![n] = r.ownGroups]
             /\ Commit(n, r.st, net)
    /\ UNCHANGED <<conf, replies, beacon, life, endpoint, bye, ticks>>

Leave(n, g) ==
    /\ life[n] \in {"new", "running"}
    /\ cmdsLeft > 0
    /\ cmdsLeft' = cmdsLeft - 1
    /\ \E fails \in Fails :
         LET r == cmdLeave(n, g, fails)
         IN  /\ r.st.failed = Cardinality(fails)
             /\ status' = [status EXCEPT ![n] = r.status]
             /\ ownGroups' = [ownGroups EXCEPT ![n] = r.ownGroups]
             /\ Commit(n, r.st, net)
    /\ UNCHANGED <<conf, replies, beacon, life, endpoint, bye, ticks>>

Shout(n, g, c) ==
    /\ life[n] \in {"new", "running"}
    /\ cmdsLeft > 0
    /\ cmdsLeft' = cmdsLeft - 1
    /\ \E fails \in Fails :
         LET st == cmdShout(n, g, c, fails)
         IN  /\ st.failed = Cardinality(fails)
             /\ Commit(n, st, net)
    /\ UNCHANGED <<conf, replies, beacon, life, endpoint, status, ownGroups, bye, ticks>>

Whisper(n, id, c) ==
    /\ life[n] \in {"new", "running"}
    /\ cmdsLeft > 0
    /\ cmdsLeft' = cmdsLeft - 1
    /\ \E fail \in BOOLEAN :
         LET st == cmdWhisper(n, id, c, fail)
         IN  /\ st.failed = (IF fail THEN 1 ELSE 0)
             /\ Commit(n, st, net)
    /\ UNCHANGED <<conf, replies, beacon, life, endpoint, status, ownGroups, bye, ticks>>

\* cmdStop: close the terminated channel.
Stop(n) ==
    /\ life[n] = "running"
    /\ cmdsLeft > 0
    /\ cmdsLeft' = cmdsLeft - 1
    /\ life' = [life EXCEPT ![n] = "stopping"]
    /\ UNCHANGED <<conf, replies, beacon, endpoint, status, ownGroups, peers, peerGroups, events, net,
                   bye, created, faults, ticks>>

\* The handler of the terminated channel: node.stop publishes the zero-port
\* beacon, node.terminate disconnects the peers; the actor leaves its loop.
Terminate(n) ==
    /\ life[n] = "stopping"
    /\ life' = [life EXCEPT ![n] = "stopped"]
    /\ bye' = [bye EXCEPT ![n] = Node \ {n}]
    /\ beacon' = [beacon EXCEPT ![n] = IF @.terminated THEN @ ELSE stop(@)]
    /\ Commit(n, terminate(Local(n)), net)
    /\ UNCHANGED <<conf, replies, endpoint, status, ownGroups, cmdsLeft, ticks>>

\* A frame from p arrives on the inbox of n.
RecvFromPeer(n, p) ==
    /\ Active(n)
    /\ net[p][n] # <<>>
    /\ \E order \in Orders(ownGroups[n]), fail \in BOOLEAN, cfail \in BOOLEAN :
         LET st == recvFromPeer(n, p, Head(net[p][n]), order, fail, cfail)
         IN  /\ st.failed = (IF fail THEN 1 ELSE 0) + (IF cfail THEN 1 ELSE 0)
             /\ Commit(n, st, [net EXCEPT ![p][n] = Tail(@)])
             /\ life' = [life EXCEPT ![n] = IF st.panic THEN "panicked" ELSE @]
    /\ UNCHANGED <<conf, replies, beacon, endpoint, status, ownGroups, bye, cmdsLeft, ticks>>

\* A beacon of the running node p reaches n.
Beacon(n, p) ==
    /\ Active(n)
    /\ p # n
    /\ beaconPort[n] > 0
    /\ beaconPort[p] > 0
    /\ Active(p) \/ (life[p] = "stopped" /\ n \in bye[p])
    /\ \E order \in Orders(ownGroups[n]), fail \in BOOLEAN, cfail \in BOOLEAN :
         LET st == recvFromBeacon(n, p, FALSE, order, fail, cfail)
         IN  /\ st.failed = (IF fail THEN 1 ELSE 0) + (IF cfail THEN 1 ELSE 0)
             /\ Commit(n, st, net)
    /\ UNCHANGED <<conf, replies, beacon, life, endpoint, status, ownGroups, bye, cmdsLeft, ticks>>

\* The zero-port beacon of the stopped node p reaches n.
BeaconZero(n, p) ==
    /\ Active(n)
    /\ beaconPort[n] > 0
    /\ life[p] = "stopped"
    /\ n \in bye[p]
    /\ bye' = [bye EXCEPT ![p] = @ \ {n}]
    /\ Commit(n, recvFromBeacon(n, p, TRUE, <<>>, FALSE, FALSE), net)
    /\ UNCHANGED <<conf, replies, beacon, life, endpoint, status, ownGroups, cmdsLeft, ticks>>

\* The handler of the reaper ticker (node.ping).  The ticker fires once per
\* reapInterval, the handler runs when the reactor gets to it: dt whole
\* seconds have passed since the node last looked at its deadlines (one, or
\* enough to find a silent peer evasive, or enough to find it expired).
Elapsed == {Grain, PeerEvasive * Grain, PeerExpired * Grain}

\* The handler of the reaper ticker runs dt steps of the clock after the node
\* last looked at its deadlines.
ReapStep(n, dt) ==
    /\ Active(n)
    /\ \E fails \in Fails :
         LET st == ping(elapse(Local(n), dt), DOMAIN peers[n], fails)
         IN  /\ st.failed = Cardinality(fails)
             /\ Commit(n, st, net)
             /\ clock' = [clock EXCEPT ![n] = st.clock]
    /\ UNCHANGED <<name, headers, beaconPort, gossip, udp, boot, got, codec, gyre, replies,
                   beacon, life, endpoint, status, ownGroups, bye, cmdsLeft>>

\* A tick of the reaper, counted.
ReapAfter(n, dt) ==
    /\ ReapStep(n, dt)
    /\ ticks' = ticks + 1

Reap(n) ==
    /\ ticks < MaxTick
    /\ \E dt \in Elapsed : ReapAfter(n, dt)

\* recvFromAPI for a command that configures or queries the node.
\* What a call of the facade returned: the command, the key asked for, the
\* name or the header value returned, and whether it returned without error.
Returned(c, x, h, ok) == [call |-> c.cmd, key |-> c.key, name |-> x, header |-> h, ok |-> ok]

\* newGyre: empty caches, the caller in no call, the actor in its select.
\* read are the events the application has kept from its events channel.
\* offer is the reply the actor holds out on the replies channel; slow tells
\* that the handler took longer than the caller waits.
NewGyre ==
    [name |-> Str(<<>>, 0), headers |-> EmptyMap, pc |-> "idle", actor |-> "select",
     cmd |-> cmd(""), offer |-> [err |-> FALSE, name |-> Str(<<>>, 0), header |-> ""],
     slow |-> FALSE, read |-> <<>>, ret |-> Returned(cmd(""), Str(<<>>, 0), "", TRUE)]

\* case c := <-n.cmds: n.recvFromAPI(c), with the outcome ext of the calls
\* into zmq and the gossip library.
Handle(n, c, ext) ==
    /\ life[n] \in {"new", "running"}
    /\ cmdsLeft > 0
    /\ cmdsLeft' = cmdsLeft - 1
    /\ LET st == recvFromAPI(n, c, ext)
         IN  /\ name' = [name EXCEPT ![n] = st.name]
             /\ headers' = [headers EXCEPT ![n] = st.headers]
             /\ beaconPort' = [beaconPort EXCEPT ![n] = st.beaconPort]
             /\ gossip' = [gossip EXCEPT ![n] = st.gossip]
             /\ endpoint' = [endpoint EXCEPT ![n] = st.endpoint]
             /\ replies' = [replies EXCEPT ![n] = st.replies]
             /\ bound' = [bound EXCEPT ![n] = st.bound]
             /\ got' = [got EXCEPT ![n] = st.got]
             /\ errs' = [errs EXCEPT ![n] =
                            IF st.err /\ Len(st.replies) > Len(replies[n])
                            THEN @ \cup {Len(st.replies)} ELSE @]
             /\ life' = [life EXCEPT ![n] = IF st.panic THEN "panicked" ELSE @]
    /\ UNCHANGED <<status, ownGroups, peers, peerGroups, events, net, bye, created,
                   beacon, udp, clock, port, timers, subs, codec, faults, ticks>>

\* The outcomes of the calls into zmq and the gossip library that the handler
\* of c can meet: only the gossip commands make such calls.
ExtOf(c) ==
    IF c.cmd \in {"SET ENDPOINT", "GOSSIP BIND", "GOSSIP CONNECT", "GOSSIP PORT"}
    THEN Ext
    ELSE {[new |-> FALSE, bind |-> FALSE, send |-> FALSE, recv |-> FALSE,
           nilcall |-> "ok"]}

\* The actor serves a command of the application; the facade is left out.
RecvFromAPI(n, c) == (\E ext \in ExtOf(c) : Handle(n, c, ext)) /\ UNCHANGED gyre

\* The application writes into a map it has got from Headers(): the write
\* goes to the map object the value refers to.
Mutate(n, k) ==
    /\ life[n] \in {"new", "running"}
    /\ cmdsLeft > 0
    /\ cmdsLeft' = cmdsLeft - 1
    /\ \E i \in 1..Len(got[n]) :
         IF got[n][i].obj = "node"
         THEN /\ headers' = [headers EXCEPT ![n] = Put(@, k, "w")]
              /\ UNCHANGED got
         ELSE /\ got' = [got EXCEPT ![n][i].at = Put(@, k, "w")]
              /\ UNCHANGED headers
    /\ UNCHANGED <<life, endpoint, status, ownGroups, peers, peerGroups, events,
                   net, bye, created, name, beaconPort, gossip, replies, beacon,
                   udp, clock, boot, codec, gyre, faults, ticks>>

\* A faulty reply to cmdStop: the goroutine does not wait for the actor.
StopReplyEarly(n) ==
    /\ life[n] \in {"stopping", "stopped"}
    /\ "" \notin {replies[n][k] : k \in 1..Len(replies[n])}
    /\ replies' = [replies EXCEPT ![n] = Append(@, "")]
    /\ UNCHANGED <<conf, beacon, life, endpoint, status, ownGroups, peers,
                   peerGroups, events, net, bye, created, cmdsLeft, faults, ticks>>

\* The goroutine of cmdStop: n.wg.Wait() returns when the actor has left its
\* loop, then the empty reply is put.
StopReply(n) ==
    /\ life[n] = "stopped"
    /\ "" \notin {replies[n][k] : k \in 1..Len(replies[n])}
    /\ replies' = [replies EXCEPT ![n] = Append(@, "")]
    /\ UNCHANGED <<conf, beacon, life, endpoint, status, ownGroups, peers,
                   peerGroups, events, net, bye, created, cmdsLeft, faults, ticks>>

Init ==
    /\ life = [n \in Node |-> "new"]
    /\ endpoint = [n \in Node |-> ""]
    /\ status = [n \in Node |-> 0]
    /\ ownGroups = [n \in Node |-> {}]
    /\ peers = [n \in Node |-> EmptyMap]
    /\ peerGroups = [n \in Node |-> EmptyMap]
    /\ events = [n \in Node |-> <<>>]
    /\ net = [s \in Node |-> [d \in Node |-> <<>>]]
    /\ bye = [n \in Node |-> {}]
    /\ created = [n \in Node |-> 0]
    /\ name = [n \in Node |-> NewName(n)]
    /\ headers = [n \in Node |-> EmptyMap]
    /\ beaconPort = [n \in Node |-> ZreDiscoveryPort]
    /\ gossip = [n \in Node |-> FALSE]
    /\ replies = [n \in Node |-> <<>>]
    /\ bound = [n \in Node |-> FALSE]
    /\ port = [n \in Node |-> 0]
    /\ timers = [n \in Node |-> 0]
    /\ subs = [n \in Node |-> 0]
    /\ errs = [n \in Node |-> {}]
    /\ got = [n \in Node |-> <<>>]
    /\ codec = NoCodec
    /\ gyre = [n \in Node |-> NewGyre]
    /\ beacon = [n \in Node |-> NewBeacon]
    /\ udp = [n \in Node |-> <<>>]
    /\ clock = [n \in Node |-> 0]
    /\ cmdsLeft = MaxCmd
    /\ faults = 0
    /\ ticks = 0

Next ==
    \/ \E n \in Node : Start(n)
    \/ \E n \in Node, g \in Group : Join(n, g)
    \/ \E n \in Node, g \in Group : Leave(n, g)
    \/ \E n \in Node, g \in Group, c \in Content : Shout(n, g, c)
    \/ \E n \in Node : \E id \in Node \ {n}, c \in Content : Whisper(n, id, c)
    \/ \E n \in Node : Stop(n)
    \/ \E n \in Node : Terminate(n)
    \/ \E n \in Node : \E p \in Node \ {n} : RecvFromPeer(n, p)
    \/ \E n \in Node, p \in Node : Beacon(n, p)
    \/ \E n \in Node : \E p \in Node \ {n} : BeaconZero(n, p)
    \/ \E n \in Node : Reap(n)

Spec == Init /\ [][Next]_vars

\* The same nodes with one more facade command.
InitDeep ==
    /\ life = [n \in Node |-> "new"]
    /\ endpoint = [n \in Node |-> ""]
    /\ status = [n \in Node |-> 0]
    /\ ownGroups = [n \in Node |-> {}]
    /\ peers = [n \in Node |-> EmptyMap]
    /\ peerGroups = [n \in Node |-> EmptyMap]
    /\ events = [n \in Node |-> <<>>]
    /\ net = [s \in Node |-> [d \in Node |-> <<>>]]
    /\ bye = [n \in Node |-> {}]
    /\ created = [n \in Node |-> 0]
    /\ name = [n \in Node |-> NewName(n)]
    /\ headers = [n \in Node |-> EmptyMap]
    /\ beaconPort = [n \in Node |-> ZreDiscoveryPort]
    /\ gossip = [n \in Node |-> FALSE]
    /\ replies = [n \in Node |-> <<>>]
    /\ bound = [n \in Node |-> FALSE]
    /\ port = [n \in Node |-> 0]
    /\ timers = [n \in Node |-> 0]
    /\ subs = [n \in Node |-> 0]
    /\ errs = [n \in Node |-> {}]
    /\ got = [n \in Node |-> <<>>]
    /\ codec = NoCodec
    /\ gyre = [n \in Node |-> NewGyre]
    /\ beacon = [n \in Node |-> NewBeacon]
    /\ udp = [n \in Node |-> <<>>]
    /\ clock = [n \in Node |-> 0]
    /\ cmdsLeft = DeepCmd
    /\ faults = 0
    /\ ticks = 0

\* With three commands the applications join, leave and shout; no node
\* whispers or stops.
NextDeep ==
    \/ \E n \in Node : Start(n)
    \/ \E n \in Node, g \in Group : Join(n, g)
    \/ \E n \in Node, g \in Group : Leave(n, g)
    \/ \E n \in Node, g \in Group, c \in Content : Shout(n, g, c)
    \/ \E n \in Node : \E p \in Node \ {n} : RecvFromPeer(n, p)
    \/ \E n \in Node, p \in Node : Beacon(n, p)
    \/ \E n \in Node : Reap(n)

SpecDeep == InitDeep /\ [][NextDeep]_vars

\* A long-lived link: A and B found each other long ago and have exchanged
\* 65535 frames in each direction since; A is in g1 after 255 own joins and
\* leaves, B has left it after 254; the applications have read every event and
\* the network is empty.
linked(id, st) ==
    [newPeer(id) EXCEPT !.name = NewName(id),
                        !.endpoint = EndpointOf(id), !.connected = TRUE,
                        !.ready = TRUE, !.status = st,
                        !.sentSequence = SeqMod - 1, !.wantSequence = SeqMod - 1,
                        !.rxN = SeqMod - 1, !.rxLast = SeqMod - 1, !.helloAt = 1,
                        !.txN = SeqMod - 1, !.txLast = SeqMod - 1,
                        !.txFirst = "HELLO", !.txFirstSeq = 1]

InitWrap ==
    /\ life = [n \in Node |-> "running"]
    /\ endpoint = [n \in Node |-> EndpointOf(n)]
    /\ status = [n \in Node |-> IF n = "A" THEN StatusMod - 1 ELSE StatusMod - 2]
    /\ ownGroups = [n \in Node |-> IF n = "A" THEN {"g1"} ELSE {}]
    /\ peers = [n \in Node |->
                  IF n = "A" THEN [x \in {"B"} |-> linked("B", StatusMod - 2)]
                  ELSE [x \in {"A"} |-> linked("A", StatusMod - 1)]]
    /\ peerGroups = [n \in Node |->
                       [g \in {"g1"} |-> IF n = "B" THEN {"A"} ELSE {}]]
    /\ events = [n \in Node |-> <<>>]
    /\ net = [s \in Node |-> [d \in Node |-> <<>>]]
    /\ bye = [n \in Node |-> {}]
    /\ created = [n \in Node |-> 1]
    /\ name = [n \in Node |-> NewName(n)]
    /\ headers = [n \in Node |-> EmptyMap]
    /\ beaconPort = [n \in Node |-> ZreDiscoveryPort]
    /\ gossip = [n \in Node |-> FALSE]
    /\ replies = [n \in Node |-> <<"START">>]
    /\ bound = [n \in Node |-> TRUE]
    /\ port = [n \in Node |-> DynPortFrom]
    /\ timers = [n \in Node |-> 1]
    /\ subs = [n \in Node |-> 1]
    /\ errs = [n \in Node |-> {}]
    /\ got = [n \in Node |-> <<>>]
    /\ codec = NoCodec
    /\ gyre = [n \in Node |-> NewGyre]
    /\ beacon = [n \in Node |-> Publish(Subscribe(NoEcho(NewBeacon), ZRE), "port")]
    /\ udp = [n \in Node |-> <<>>]
    /\ clock = [n \in Node |-> 0]
    /\ cmdsLeft = MaxCmd
    /\ faults = 0
    /\ ticks = 0

\* Every node runs already: the handlers of Next but cmdStart.
NextWrap ==
    \/ \E n \in Node, g \in Group : Join(n, g)
    \/ \E n \in Node, g \in Group : Leave(n, g)
    \/ \E n \in Node, g \in Group, c \in Content : Shout(n, g, c)
    \/ \E n \in Node : \E id \in Node \ {n}, c \in Content : Whisper(n, id, c)
    \/ \E n \in Node : Stop(n)
    \/ \E n \in Node : Terminate(n)
    \/ \E n \in Node : \E p \in Node \ {n} : RecvFromPeer(n, p)
    \/ \E n \in Node, p \in Node : Beacon(n, p)
    \/ \E n \in Node : \E p \in Node \ {n} : BeaconZero(n, p)
    \/ \E n \in Node : Reap(n)

SpecWrap == InitWrap /\ [][NextWrap]_vars

\* A frame the mailbox of s took for d (t.Send returned no error) never
\* reaches the inbox of d: one of the transport errors of a run.
Lose(s, d) ==
    /\ net[s][d] # <<>>
    /\ faults < MaxFault
    /\ faults' = faults + 1
    /\ net' = [net EXCEPT ![s][d] = Tail(@)]
    /\ UNCHANGED <<conf, replies, beacon, life, endpoint, status, ownGroups, peers,
                   peerGroups, events, bye, created, cmdsLeft, ticks>>

\* The long-lived link with a lossy transport: the nodes send on their
\* mailboxes (facade commands, the PING of the reaper), no beacon arrives
\* and no node stops, so no record is created and no HELLO is sent.
NextLoss ==
    \/ \E n \in Node, g \in Group : Join(n, g)
    \/ \E n \in Node, g \in Group : Leave(n, g)
    \/ \E n \in Node, g \in Group, c \in Content : Shout(n, g, c)
    \/ \E n \in Node : \E id \in Node \ {n}, c \in Content : Whisper(n, id, c)
    \/ \E n \in Node : \E p \in Node \ {n} : RecvFromPeer(n, p)
    \/ \E n \in Node : Reap(n)
    \/ \E s \in Node : \E d \in Node \ {s} : Lose(s, d)

SpecLoss == InitWrap /\ [][NextLoss]_vars

\* The handshake on the long-lived link when nothing fails any more: the
\* inbox handler without transport errors, with an application that reads
\* its events (at most MaxUnread are waiting when a frame is handled).  The
\* records the handler creates are not counted: a run may create any number.
MaxUnread == 1

Inbox(n, p) ==
    /\ Active(n)
    /\ net[p][n] # <<>>
    /\ Len(events[n]) < MaxUnread
    /\ \E order \in Orders(ownGroups[n]) :
         LET st == recvFromPeer(n, p, Head(net[p][n]), order, FALSE, FALSE)
         IN  /\ Commit(n, [st EXCEPT !.created = created[n]],
                       [net EXCEPT ![p][n] = Tail(@)])
             /\ life' = [life EXCEPT ![n] = IF st.panic THEN "panicked" ELSE @]
    /\ UNCHANGED <<conf, replies, beacon, endpoint, status, ownGroups, bye, cmdsLeft,
                   ticks>>

\* The application takes the next event from the events channel.
ReadEvent(n) ==
    /\ events[n] # <<>>
    /\ events' = [events EXCEPT ![n] = Tail(@)]
    /\ UNCHANGED <<conf, replies, beacon, life, endpoint, status, ownGroups, peers,
                   peerGroups, net, bye, created, cmdsLeft, faults, ticks>>

\* A finds B expired and hears its beacon again while B whispers to A.
NextQuiet ==
    \/ \E c \in Content : Whisper("B", "A", c)
    \/ Reap("A")
    \/ Beacon("A", "B")
    \/ \E n \in Node : \E p \in Node \ {n} : Inbox(n, p)
    \/ \E n \in Node : ReadEvent(n)

\* The application keeps reading, and the reactor runs the inbox handler
\* whenever a frame waits: again and again the handler of a running node has
\* nothing to do.  (This is said of states; it implies weak fairness of
\* Inbox(n, p), which is enabled exactly when the three conditions hold.)
SpecQuiet ==
    /\ InitWrap
    /\ [][NextQuiet]_vars
    /\ \A n \in Node : WF_vars(ReadEvent(n))
    /\ \A n \in Node : \A p \in Node \ {n} :
         []<>~(Active(n) /\ net[p][n] # <<>> /\ Len(events[n]) < MaxUnread)

\* The facade: the applications configure and query the nodes, start and stop
\* them; no transport error, no reaper tick.
ApiCmd == 2

InitApi ==
    /\ life = [n \in Node |-> "new"]
    /\ endpoint = [n \in Node |-> ""]
    /\ status = [n \in Node |-> 0]
    /\ ownGroups = [n \in Node |-> {}]
    /\ peers = [n \in Node |-> EmptyMap]
    /\ peerGroups = [n \in Node |-> EmptyMap]
    /\ events = [n \in Node |-> <<>>]
    /\ net = [s \in Node |-> [d \in Node |-> <<>>]]
    /\ bye = [n \in Node |-> {}]
    /\ created = [n \in Node |-> 0]
    /\ name = [n \in Node |-> NewName(n)]
    /\ headers = [n \in Node |-> EmptyMap]
    /\ beaconPort = [n \in Node |-> ZreDiscoveryPort]
    /\ gossip = [n \in Node |-> FALSE]
    /\ replies = [n \in Node |-> <<>>]
    /\ bound = [n \in Node |-> FALSE]
    /\ port = [n \in Node |-> 0]
    /\ timers = [n \in Node |-> 0]
    /\ subs = [n \in Node |-> 0]
    /\ errs = [n \in Node |-> {}]
    /\ got = [n \in Node |-> <<>>]
    /\ codec = NoCodec
    /\ gyre = [n \in Node |-> NewGyre]
    /\ beacon = [n \in Node |-> NewBeacon]
    /\ udp = [n \in Node |-> <<>>]
    /\ clock = [n \in Node |-> 0]
    /\ cmdsLeft = ApiCmd
    /\ faults = MaxFault
    /\ ticks = MaxTick

NextApi ==
    \/ \E n \in Node : Start(n)
    \/ \E n \in Node, c \in Commands : RecvFromAPI(n, c)
    \/ \E n \in Node, g \in Group : Join(n, g)
    \/ \E n \in Node, g \in Group : Leave(n, g)
    \/ \E n \in Node, g \in Group, c \in Content : Shout(n, g, c)
    \/ \E n \in Node : \E id \in Node \ {n}, c \in Content : Whisper(n, id, c)
    \/ \E n \in Node : Stop(n)
    \/ \E n \in Node : Terminate(n)
    \/ \E n \in Node : StopReply(n)
    \/ \E n \in Node : \E p \in Node \ {n} : RecvFromPeer(n, p)
    \/ \E n \in Node, p \in Node : Beacon(n, p)
    \/ \E n \in Node : \E p \in Node \ {n} : BeaconZero(n, p)

SpecApi == InitApi /\ [][NextApi]_vars

\* The applications configure and start their nodes, and the calls into zmq,
\* the beacon and the system may fail.
NextBoot ==
    \/ \E n \in Node : Start(n)
    \/ \E n \in Node : \E step \in Steps : StartFail(n, step)
    \/ \E n \in Node : StartAgain(n)
    \/ \E n \in Node, c \in Commands : RecvFromAPI(n, c)
    \/ \E n \in Node, k \in Keys : Mutate(n, k)

BootCmd == 2

InitBoot ==
    /\ life = [n \in Node |-> "new"]
    /\ endpoint = [n \in Node |-> ""]
    /\ status = [n \in Node |-> 0]
    /\ ownGroups = [n \in Node |-> {}]
    /\ peers = [n \in Node |-> EmptyMap]
    /\ peerGroups = [n \in Node |-> EmptyMap]
    /\ events = [n \in Node |-> <<>>]
    /\ net = [s \in Node |-> [d \in Node |-> <<>>]]
    /\ bye = [n \in Node |-> {}]
    /\ created = [n \in Node |-> 0]
    /\ name = [n \in Node |-> NewName(n)]
    /\ headers = [n \in Node |-> EmptyMap]
    /\ beaconPort = [n \in Node |-> ZreDiscoveryPort]
    /\ gossip = [n \in Node |-> FALSE]
    /\ replies = [n \in Node |-> <<>>]
    /\ bound = [n \in Node |-> FALSE]
    /\ port = [n \in Node |-> 0]
    /\ timers = [n \in Node |-> 0]
    /\ subs = [n \in Node |-> 0]
    /\ errs = [n \in Node |-> {}]
    /\ got = [n \in Node |-> <<>>]
    /\ codec = NoCodec
    /\ gyre = [n \in Node |-> NewGyre]
    /\ beacon = [n \in Node |-> NewBeacon]
    /\ udp = [n \in Node |-> <<>>]
    /\ clock = [n \in Node |-> 0]
    /\ cmdsLeft = BootCmd
    /\ faults = MaxFault
    /\ ticks = MaxTick

SpecBoot == InitBoot /\ [][NextBoot]_vars

\* The long-lived link of InitWrap with an application at A that has stopped
\* reading its events: the events channel of A is full.
FullCmd == 1

InitFull ==
    /\ life = [n \in Node |-> "running"]
    /\ endpoint = [n \in Node |-> EndpointOf(n)]
    /\ status = [n \in Node |-> IF n = "A" THEN StatusMod - 1 ELSE StatusMod - 2]
    /\ ownGroups = [n \in Node |-> IF n = "A" THEN {"g1"} ELSE {}]
    /\ peers = [n \in Node |->
                  IF n = "A" THEN [x \in {"B"} |-> linked("B", StatusMod - 2)]
                  ELSE [x \in {"A"} |-> linked("A", StatusMod - 1)]]
    /\ peerGroups = [n \in Node |->
                       [g \in {"g1"} |-> IF n = "B" THEN {"A"} ELSE {}]]
    /\ events = [n \in Node |->
                   IF n = "A"
                   THEN [k \in 1..EventsCap |-> Event("WHISPER", "B", "", "x")]
                   ELSE <<>>]
    /\ net = [s \in Node |-> [d \in Node |-> <<>>]]
    /\ bye = [n \in Node |-> {}]
    /\ created = [n \in Node |-> 1]
    /\ name = [n \in Node |-> NewName(n)]
    /\ headers = [n \in Node |-> EmptyMap]
    /\ beaconPort = [n \in Node |-> ZreDiscoveryPort]
    /\ gossip = [n \in Node |-> FALSE]
    /\ replies = [n \in Node |-> <<"START">>]
    /\ bound = [n \in Node |-> TRUE]
    /\ port = [n \in Node |-> DynPortFrom]
    /\ timers = [n \in Node |-> 1]
    /\ subs = [n \in Node |-> 1]
    /\ errs = [n \in Node |-> {}]
    /\ got = [n \in Node |-> <<>>]
    /\ codec = NoCodec
    /\ gyre = [n \in Node |-> NewGyre]
    /\ beacon = [n \in Node |-> Publish(Subscribe(NoEcho(NewBeacon), ZRE), "port")]
    /\ udp = [n \in Node |-> <<>>]
    /\ clock = [n \in Node |-> 0]
    /\ cmdsLeft = FullCmd
    /\ faults = 0
    /\ ticks = 0

SpecFull == InitFull /\ [][NextWrap]_vars

\* The reaper at work: the ticker fires once per reapInterval and the handler
\* runs at most one reapInterval after the node last looked at its deadlines,
\* at any step of the clock; the clocks of the nodes start anywhere in the
\* second.  No facade command, no transport error.
TimeTick == 6

InitTime ==
    /\ life = [n \in Node |-> "new"]
    /\ endpoint = [n \in Node |-> ""]
    /\ status = [n \in Node |-> 0]
    /\ ownGroups = [n \in Node |-> {}]
    /\ peers = [n \in Node |-> EmptyMap]
    /\ peerGroups = [n \in Node |-> EmptyMap]
    /\ events = [n \in Node |-> <<>>]
    /\ net = [s \in Node |-> [d \in Node |-> <<>>]]
    /\ bye = [n \in Node |-> {}]
    /\ created = [n \in Node |-> 0]
    /\ name = [n \in Node |-> NewName(n)]
    /\ headers = [n \in Node |-> EmptyMap]
    /\ beaconPort = [n \in Node |-> ZreDiscoveryPort]
    /\ gossip = [n \in Node |-> FALSE]
    /\ replies = [n \in Node |-> <<>>]
    /\ bound = [n \in Node |-> FALSE]
    /\ port = [n \in Node |-> 0]
    /\ timers = [n \in Node |-> 0]
    /\ subs = [n \in Node |-> 0]
    /\ errs = [n \in Node |-> {}]
    /\ got = [n \in Node |-> <<>>]
    /\ codec = NoCodec
    /\ gyre = [n \in Node |-> NewGyre]
    /\ beacon = [n \in Node |-> NewBeacon]
    /\ udp = [n \in Node |-> <<>>]
    /\ clock \in [Node -> 0..(Grain - 1)]
    /\ cmdsLeft = 0
    /\ faults = MaxFault
    /\ ticks = 0

Tick(n) ==
    /\ ticks < TimeTick
    /\ \E dt \in 1..(ReapInterval * Grain) : ReapAfter(n, dt)

NextTime ==
    \/ \E n \in Node : Start(n)
    \/ \E n \in Node : \E p \in Node \ {n} : RecvFromPeer(n, p)
    \/ \E n \in Node, p \in Node : Beacon(n, p)
    \/ \E n \in Node : Tick(n)

SpecTime == InitTime /\ [][NextTime]_vars

\* Node B has run before under the identity Former and has gone without a
\* zero-port beacon; its beacons of that time reach the other nodes until B
\* is started again.
BeaconFormer(n) ==
    /\ Active(n)
    /\ n # "B"
    /\ beaconPort[n] > 0
    /\ life["B"] = "new"
    /\ \E order \in Orders(ownGroups[n]), fail \in BOOLEAN, cfail \in BOOLEAN :
         LET st == recvFromBeacon(n, Former, FALSE, order, fail, cfail)
         IN  /\ st.failed = (IF fail THEN 1 ELSE 0) + (IF cfail THEN 1 ELSE 0)
             /\ Commit(n, st, net)
    /\ UNCHANGED <<conf, replies, beacon, life, endpoint, status, ownGroups, bye, cmdsLeft, ticks>>

NextPurge ==
    \/ \E n \in Node : Start(n)
    \/ \E n \in Node : \E g \in Group : Join(n, g)
    \/ \E n \in Node : \E p \in Node \ {n} : RecvFromPeer(n, p)
    \/ \E n \in Node, p \in Node : Beacon(n, p)
    \/ \E n \in Node : BeaconFormer(n)
    \/ \E n \in Node : Reap(n)

SpecPurge == Init /\ [][NextPurge]_vars

\* The nodes left to themselves for ever: the applications issue no command,
\* the beacons go on, the reaper ticks once per reapInterval without end (as
\* long as no mailbox has carried MaxTx frames), the reactor gets to every
\* frame in the inbox.  One send may meet a transport error.
MaxTx == 2

TickOn(n) ==
    /\ \A p \in DOMAIN peers[n] : peers[n][p].txN < MaxTx
    /\ ReapStep(n, ReapInterval * Grain)
    /\ UNCHANGED ticks

NextLive ==
    \/ \E n \in Node : Start(n)
    \/ \E n \in Node : \E p \in Node \ {n} : RecvFromPeer(n, p)
    \/ \E n \in Node, p \in Node : Beacon(n, p)
    \/ \E n \in Node : TickOn(n)

SpecLive ==
    /\ Init
    /\ [][NextLive]_vars
    /\ \A n \in Node : WF_vars(TickOn(n))
    /\ \A n \in Node : \A p \in Node \ {n} : WF_vars(Beacon(n, p))
    /\ \A n \in Node : \A p \in Node \ {n} : WF_vars(RecvFromPeer(n, p))

\* The shutdown routine next to the signal workers of the beacon: node.stop
\* step by step, each step what it does while it holds the lock of the
\* beacon.
MaxFrame == 2

\* A tick of a signal worker of n.beacon: under the lock, return when the
\* beacon is terminated, else write the frame to transmit, if any.
Signal(n) ==
    /\ beacon[n].workers > 0
    /\ IF beacon[n].terminated
       THEN /\ beacon' = [beacon EXCEPT ![n].workers = @ - 1]
            /\ UNCHANGED udp
       ELSE /\ beacon[n].transmit # ""
            /\ Len(udp[n]) < MaxFrame
            /\ udp' = [udp EXCEPT ![n] = Append(@, beacon[n].transmit)]
            /\ UNCHANGED beacon
    /\ UNCHANGED <<life, endpoint, status, ownGroups, peers, peerGroups, events,
                   net, bye, created, name, headers, beaconPort, gossip, replies,
                   clock, boot, got, codec, gyre, cmdsLeft, faults,
                   ticks>>

\* node.stop, first half: n.beacon.Publish of the zero-port frame.
StopPublish(n) ==
    /\ life[n] = "stopping"
    /\ beacon[n].transmit # "zero"
    /\ beacon' = [beacon EXCEPT ![n] = Publish(@, "zero")]
    /\ UNCHANGED <<life, endpoint, status, ownGroups, peers, peerGroups, events,
                   net, bye, created, conf, replies, cmdsLeft, faults, ticks>>

\* node.stop, second half: after the sleep of one millisecond, n.beacon.Close.
StopClose(n) ==
    /\ life[n] = "stopping"
    /\ beacon[n].transmit = "zero"
    /\ ~beacon[n].terminated
    /\ beacon' = [beacon EXCEPT ![n] = Close(@)]
    /\ UNCHANGED <<life, endpoint, status, ownGroups, peers, peerGroups, events,
                   net, bye, created, conf, replies, cmdsLeft, faults, ticks>>

\* The rest of the handler of the terminated channel, after n.stop().
StopDone(n) ==
    /\ beacon[n].terminated
    /\ Terminate(n)

NextBeacon ==
    \/ \E n \in Node : Start(n)
    \/ \E n \in Node : Stop(n)
    \/ \E n \in Node : StopPublish(n)
    \/ \E n \in Node : StopClose(n)
    \/ \E n \in Node : StopDone(n)
    \/ \E n \in Node : Signal(n)

SpecBeacon == Init /\ [][NextBeacon]_vars

\* The datagrams that arrive on the UDP port of the beacons: for each node
\* its beacon and its zero-port beacon, a beacon of another version, a beacon
\* of another protocol, a beacon followed by zeroes up to beaconMax bytes and
\* up to one byte more; and the empty datagram Close sends.
Pad(b, k) == b \o Bytes(k - Len(b), 0)

Datagrams ==
    UNION {{[from |-> p, bytes |-> FrameOf(p, "port")],
            [from |-> p, bytes |-> FrameOf(p, "zero")],
            [from |-> p, bytes |-> aBeacon(ZRE, BeaconVersion + 1, Uuid(p), DynPortFrom)],
            [from |-> p, bytes |-> aBeacon(ZRX, BeaconVersion, Uuid(p), DynPortFrom)],
            [from |-> p, bytes |-> Pad(FrameOf(p, "port"), BeaconMax)],
            [from |-> p, bytes |-> Pad(FrameOf(p, "port"), BeaconMax + 1)],
            [from |-> p, bytes |-> <<>>]} : p \in Node}

\* What the steps of a beacon leave alone.
node == <<life, endpoint, status, ownGroups, peers, peerGroups, events, net, bye,
          created, conf, replies, cmdsLeft, faults, ticks>>

MaxSignal == 1
MaxWorker == 2

\* A listener of n.beacon reads the datagram d and decides.
Listen(n, d) ==
    /\ beacon[n].workers > 0
    /\ ~beacon[n].terminated
    /\ beacon[n].pend = <<>>
    /\ Len(beacon[n].signals) < MaxSignal
    /\ beacon' = [beacon EXCEPT ![n] = listen(@, FrameOf(n, @.transmit), d)]
    /\ UNCHANGED node

\* The listener ends its iteration.
Pass(n) ==
    /\ beacon[n].pend # <<>>
    /\ beacon' = [beacon EXCEPT ![n] = pass(@)]
    /\ UNCHANGED node

\* The handler of the signals channel of n.beacon: recvFromBeacon decodes
\* the signal and ignores it unless the version is beaconVersion.
RecvSignal(n) ==
    /\ Active(n)
    /\ beacon[n].signals # <<>>
    /\ beacon' = [beacon EXCEPT ![n].signals = Tail(@)]
    /\ LET b == Decode(Head(beacon[n].signals).transmit)
       IN  IF b.version = BeaconVersion
           THEN \E order \in Orders(ownGroups[n]), fail \in BOOLEAN, cfail \in BOOLEAN :
                  LET st == recvFromBeacon(n, IdentityOf(b.uuid), b.port = 0,
                                           order, fail, cfail)
                  IN  /\ st.failed = (IF fail THEN 1 ELSE 0) + (IF cfail THEN 1 ELSE 0)
                      /\ Commit(n, st, net)
           ELSE Commit(n, Local(n), net)
    /\ UNCHANGED <<conf, replies, life, endpoint, status, ownGroups, bye, cmdsLeft, ticks>>

NextDatagram ==
    \/ \E n \in Node : Start(n)
    \/ \E n \in Node : \E d \in {x \in Datagrams : x.from # n} : Listen(n, d)
    \/ \E n \in Node : Pass(n)
    \/ \E n \in Node : RecvSignal(n)

SpecDatagram == Init /\ [][NextDatagram]_vars

\* The codec by itself, as its tests use it: a message with valid field
\* values is marshalled and the frame is unmarshalled.  Short strings have at
\* most StringMax bytes; group names, header values and contents any length.
Messages ==
    LET Shorts == {<<>>, Bytes(1, 97), Bytes(StringMax, 98)}
        Longs == {<<>>, Bytes(1, 99), Bytes(StringMax + 1, 100)}
        Sequences == {0, 1, SeqMod - 1}
        Statuses == {0, StatusMod - 1}
        GroupLists ==
            {<<>>} \cup {<<g>> : g \in Longs}
                \cup {<<Bytes(1, 99), Bytes(StringMax + 1, 100), Bytes(1, 99)>>}
        HeaderMaps ==
            {EmptyMap, Put(EmptyMap, <<>>, <<>>),
             Put(EmptyMap, Bytes(1, 97), Bytes(1, 99)),
             Put(Put(EmptyMap, Bytes(1, 97), Bytes(StringMax + 1, 100)),
                 Bytes(StringMax, 98), <<>>)}
    IN  {[Msg("HELLO") EXCEPT !.sequence = q, !.Endpoint = e, !.Groups = gs,
                              !.Status = st, !.Name = nm, !.Headers = h] :
            q \in {1, SeqMod - 1}, e \in {Bytes(1, 97), Bytes(StringMax, 98)},
            gs \in GroupLists, st \in Statuses,
            nm \in {<<>>, Bytes(StringMax, 98)}, h \in HeaderMaps}
        \cup {[Msg("WHISPER") EXCEPT !.sequence = q, !.Content = c] :
                 q \in Sequences, c \in Longs}
        \cup {[Msg("SHOUT") EXCEPT !.sequence = q, !.Group = g, !.Content = c] :
                 q \in Sequences, g \in Shorts, c \in Longs}
        \cup {[Msg(k) EXCEPT !.sequence = q, !.Group = g, !.Status = st] :
                 k \in {"JOIN", "LEAVE"}, q \in Sequences, g \in Shorts,
                 st \in Statuses}
        \cup {[Msg(k) EXCEPT !.sequence = q] :
                 k \in {"PING", "PING_OK"}, q \in Sequences}

InitCodec ==
    /\ life = [n \in Node |-> "new"]
    /\ endpoint = [n \in Node |-> ""]
    /\ status = [n \in Node |-> 0]
    /\ ownGroups = [n \in Node |-> {}]
    /\ peers = [n \in Node |-> EmptyMap]
    /\ peerGroups = [n \in Node |-> EmptyMap]
    /\ events = [n \in Node |-> <<>>]
    /\ net = [s \in Node |-> [d \in Node |-> <<>>]]
    /\ bye = [n \in Node |-> {}]
    /\ created = [n \in Node |-> 0]
    /\ name = [n \in Node |-> NewName(n)]
    /\ headers = [n \in Node |-> EmptyMap]
    /\ beaconPort = [n \in Node |-> ZreDiscoveryPort]
    /\ gossip = [n \in Node |-> FALSE]
    /\ replies = [n \in Node |-> <<>>]
    /\ bound = [n \in Node |-> FALSE]
    /\ port = [n \in Node |-> 0]
    /\ timers = [n \in Node |-> 0]
    /\ subs = [n \in Node |-> 0]
    /\ errs = [n \in Node |-> {}]
    /\ got = [n \in Node |-> <<>>]
    /\ beacon = [n \in Node |-> NewBeacon]
    /\ udp = [n \in Node |-> <<>>]
    /\ clock = [n \in Node |-> 0]
    /\ cmdsLeft = 0
    /\ faults = 0
    /\ ticks = 0
    /\ codec \in {[NoCodec EXCEPT !.phase = "new", !.m = m] : m \in Messages}
    /\ gyre = [n \in Node |-> NewGyre]

\* What the steps of the codec leave alone.
others == <<life, endpoint, status, ownGroups, peers, peerGroups, events, net, bye,
            created, name, headers, beaconPort, gossip, replies, beacon, udp,
            clock, boot, got, gyre, cmdsLeft, faults, ticks>>

\* t.Marshal(): the range over the headers visits the keys in some order.
MarshalMsg ==
    /\ codec.phase = "new"
    /\ \E order \in Orders(DOMAIN codec.m.Headers) :
         codec' = [codec EXCEPT !.phase = "sent", !.wire = Marshal(codec.m, order)]
    /\ UNCHANGED others

\* msg.Unmarshal of the frame.
UnmarshalMsg ==
    /\ codec.phase = "sent"
    /\ codec' = [codec EXCEPT !.phase = "done", !.out = Unmarshal(codec.wire)]
    /\ UNCHANGED others

NextCodec == MarshalMsg \/ UnmarshalMsg

SpecCodec == InitCodec /\ [][NextCodec]_vars

\* msg.Clone by itself: a message is cloned, then the sequence, the groups,
\* the headers or the content of the message or of its clone is changed.
CloneMsg ==
    /\ codec.phase = "new"
    /\ codec' = [codec EXCEPT !.phase = "cloned", !.copy = msgClone(codec.m)]
    /\ UNCHANGED others

\* SetSequence, Groups[0] = ..., Headers[k] = v or Content[0] = ... on the
\* message (who = "m") or on its clone (who = "copy"): an object the two have
\* in common changes for both.
Change(who, f) ==
    /\ codec.phase = "cloned"
    /\ ~codec.copy.panic
    /\ LET Changed(m) ==
             CASE f = "sequence" -> (m.sequence + 1) % SeqMod
               [] f = "Groups" ->
                    IF m.Groups = <<>> THEN <<>> ELSE [m.Groups EXCEPT ![1] = <<1>>]
               [] f = "Headers" -> Put(m.Headers, <<1>>, <<2>>)
               [] f = "Content" ->
                    IF m.Content = <<>> THEN <<>> ELSE [m.Content EXCEPT ![1] = 1]
           both == f \in codec.copy.same
           m1 == IF who = "m" \/ both
                 THEN [codec.m EXCEPT ![f] = Changed(codec.m)] ELSE codec.m
           c1 == IF who = "copy" \/ both
                 THEN [codec.copy.m EXCEPT ![f] = Changed(codec.copy.m)]
                 ELSE codec.copy.m
       IN  codec' = [codec EXCEPT !.phase = "changed", !.m = m1, !.copy.m = c1]
    /\ UNCHANGED others

NextClone ==
    \/ CloneMsg
    \/ \E who \in {"m", "copy"} :
         \E f \in {"sequence", "Groups", "Headers", "Content"} : Change(who, f)

SpecClone == InitCodec /\ [][NextClone]_vars

\* A beacon used by itself, as its test uses it: the application subscribes,
\* sets noecho, publishes, falls silent and takes the signals from the
\* channel while datagrams arrive.
ApiSubscribe(n, filter) ==
    /\ beacon' = [beacon EXCEPT ![n] = Subscribe(@, filter)]
    /\ UNCHANGED node

ApiNoEcho(n) ==
    /\ beacon' = [beacon EXCEPT ![n] = NoEcho(@)]
    /\ UNCHANGED node

ApiPublish(n, transmit) ==
    /\ beacon[n].workers < MaxWorker
    /\ beacon' = [beacon EXCEPT ![n] = Publish(@, transmit)]
    /\ UNCHANGED node

ApiSilence(n) ==
    /\ beacon' = [beacon EXCEPT ![n] = Silence(@)]
    /\ UNCHANGED node

Take(n) ==
    /\ beacon[n].signals # <<>>
    /\ beacon' = [beacon EXCEPT ![n].signals = Tail(@)]
    /\ UNCHANGED node

\* The beacon under test.
Listener == {"A"}

NextListen ==
    \/ \E n \in Listener : \E f \in {<<>>, ZRE, ZRX} : ApiSubscribe(n, f)
    \/ \E n \in Listener : ApiNoEcho(n)
    \/ \E n \in Listener : \E t \in {"port", "zero"} : ApiPublish(n, t)
    \/ \E n \in Listener : ApiSilence(n)
    \/ \E n \in Listener : \E d \in Datagrams : Listen(n, d)
    \/ \E n \in Listener : Pass(n)
    \/ \E n \in Listener : Take(n)

SpecListen == Init /\ [][NextListen]_vars

\* The same beacon closed by the application while its listener is at work;
\* the end of an iteration of listen is taken in its two steps. The read of
\* b.terminated races with the write in Close: after Close it yields the new
\* or the old value.
ListenCheck(n) ==
    /\ beacon[n].pend # <<>>
    /\ ~beacon[n].sending
    /\ ~beacon[n].panic
    /\ \E gone \in (IF beacon[n].terminated THEN BOOLEAN ELSE {FALSE}) :
         beacon' = [beacon EXCEPT ![n] = check(@, gone)]
    /\ UNCHANGED node

ListenSend(n) ==
    /\ beacon[n].sending
    /\ beacon' = [beacon EXCEPT ![n] = put(@)]
    /\ UNCHANGED node

ApiClose(n) ==
    /\ ~beacon[n].terminated
    /\ beacon' = [beacon EXCEPT ![n] = Close(@)]
    /\ UNCHANGED node

NextClose ==
    \/ \E n \in Listener : \E f \in {<<>>, ZRE} : ApiSubscribe(n, f)
    \/ \E n \in Listener : \E t \in {"port"} : ApiPublish(n, t)
    \/ \E n \in Listener : \E d \in Datagrams : Listen(n, d)
    \/ \E n \in Listener : ListenCheck(n)
    \/ \E n \in Listener : ListenSend(n)
    \/ \E n \in Listener : ApiClose(n)
    \/ \E n \in Listener : Take(n)

SpecClose == Init /\ [][NextClose]_vars

\* ------------------------------------------------------------------- claims

\* C1: no node ever panics on the status assertion of JOIN / LEAVE: after the
\* receiver applies an accepted JOIN or LEAVE, peer.status equals the Status
\* field of the frame.
C1_StatusAssertionNeverFails == \A n \in Node : life[n] # "panicked"

\* C2: on a node's events channel, for every sender, after an ENTER at most
\* one EXIT is emitted before the next ENTER of that sender.
C2_AtMostOneExitPerEnter ==
    \A n \in Node : \A i, j \in 1..Len(events[n]) :
        LET e == events[n]
        IN  ( /\ i < j
              /\ e[i].type = "EXIT" /\ e[j].type = "EXIT"
              /\ e[i].sender = e[j].sender
              /\ \E k \in 1..(i - 1) :
                    e[k].type = "ENTER" /\ e[k].sender = e[i].sender )
            => \E m \in (i + 1)..(j - 1) :
                    e[m].type = "ENTER" /\ e[m].sender = e[i].sender

\* C3: at every moment, also after the shutdown routine, every member of
\* every peer group is an entry of the peers map (the groups of ownGroups
\* never get a member).
C3_GroupMembersArePeers ==
    \A n \in Node : \A g \in DOMAIN peerGroups[n] :
        peerGroups[n][g] \subseteq DOMAIN peers[n]

\* The frames s put on the wire for d in this step (no step both reads from
\* and adds to the same queue), and the events n emitted in this step.
Sent(s, d) ==
    IF Len(net'[s][d]) > Len(net[s][d])
    THEN SubSeq(net'[s][d], Len(net[s][d]) + 1, Len(net'[s][d]))
    ELSE <<>>

Emitted(n) == SubSeq(events'[n], Len(events[n]) + 1, Len(events'[n]))

\* C4: for each peer record, the frame it accepts is the frame at the head of
\* the inbox, the first frame a fresh record accepts has sequence 1, and each
\* further accepted frame has the sequence of the previously accepted one plus
\* 1 modulo 2^16 (65535 is followed by 0).
C4_Step ==
    \A n \in Node : \A p \in DOMAIN peers'[n] :
        LET r == peers'[n][p]
            had == p \in DOMAIN peers[n]
            old == peers[n][p]
        IN  /\ r.rxN = 1 => r.rxLast = 1
            /\ (had /\ r.rxN # old.rxN) =>
                    /\ r.rxN \in {1, old.rxN + 1}
                    /\ net[p][n] # <<>>
                    /\ r.rxLast = Head(net[p][n]).sequence
            /\ (had /\ old.rxN >= 1 /\ r.rxN = old.rxN + 1) =>
                    r.rxLast = (old.rxLast + 1) % SeqMod

C4_AcceptedSequencesAreConsecutive == [][C4_Step]_vars

\* A record has accepted the frame with sequence 0 right after the frame with
\* sequence 65535.
C4_Witness ==
    \E n \in Node : \E p \in DOMAIN peers[n] :
        peers[n][p].rxN = SeqMod /\ peers[n][p].rxLast = 0

\* C5: the frames transmitted on a mailbox carry consecutive sequence numbers
\* modulo 2^16 in the order of the sends: the first frame of a mailbox carries
\* 1, every other frame the sequence of the frame transmitted before it plus 1.
C5_Step ==
    \A s \in Node : \A d \in Node \ {s} :
        LET new == Sent(s, d)
            k == Len(new)
        IN  k > 0 =>
              /\ d \in DOMAIN peers'[s]
              /\ LET r == peers'[s][d]
                 IN  /\ r.txN >= k
                     /\ \A i \in 1..k :
                           new[i].sequence = (r.txLast + SeqMod - (k - i)) % SeqMod
                     /\ IF r.txN = k
                        THEN new[1].sequence = 1
                        ELSE /\ d \in DOMAIN peers[s]
                             /\ peers[s][d].txN = r.txN - k
                             /\ new[1].sequence = (peers[s][d].txLast + 1) % SeqMod

C5_SentSequencesAreConsecutive == [][C5_Step]_vars

\* Two frames of one mailbox are in flight, the first with sequence 0 (the
\* 65536th frame of the mailbox), the second with sequence 1.
C5_Witness ==
    \E s \in Node : \E d \in Node \ {s} :
        /\ Len(net[s][d]) >= 2
        /\ net[s][d][1].sequence = 0
        /\ net[s][d][2].sequence = 1
        /\ d \in DOMAIN peers[s]
        /\ peers[s][d].txN = SeqMod + 1

\* C6: the first frame transmitted on the mailbox of any peer record is a
\* HELLO with sequence 1: no other frame goes out on a mailbox before it.
C6_Step ==
    \A n \in Node : \A p \in DOMAIN peers'[n] :
        LET r == peers'[n][p]
        IN  /\ r.txN >= 1 => (r.txFirst = "HELLO" /\ r.txFirstSeq = 1)
            /\ (r.txN = 1 /\ Sent(n, p) # <<>>) =>
                    /\ Len(Sent(n, p)) = 1
                    /\ Sent(n, p)[1].kind = "HELLO"
                    /\ Sent(n, p)[1].sequence = 1

C6_HelloIsFirstFrame == [][C6_Step]_vars

\* A record created by requirePeer has sent its HELLO and another frame
\* after it.
C6_Witness ==
    \E n \in Node : \E p \in DOMAIN peers[n] :
        /\ peers[n][p].txN = 2
        /\ peers[n][p].txFirst = "HELLO"
        /\ \E i \in 1..Len(net[n][p]) : net[n][p][i].kind # "HELLO"

\* C7: no peer record accepts a HELLO after having accepted another frame:
\* the HELLO a record accepted, if any, is the first frame it accepted.
C7_HelloIsFirstAccepted ==
    \A n \in Node : \A p \in DOMAIN peers[n] : peers[n][p].helloAt \in {0, 1}

\* C8: n.status changes only by an own join of a group not yet joined or an
\* own leave of a joined group, and then by exactly 1 modulo 256; every JOIN
\* and LEAVE frame the node sends goes out in such a step and carries the
\* value n.status has after the increment.
C8_Step ==
    \A n \in Node :
        /\ status'[n] \in {status[n], (status[n] + 1) % StatusMod}
        /\ (ownGroups'[n] # ownGroups[n]) <=> (status'[n] # status[n])
        /\ \A d \in Node \ {n} : \A i \in 1..Len(Sent(n, d)) :
              Sent(n, d)[i].kind \in {"JOIN", "LEAVE"} =>
                  /\ status'[n] = (status[n] + 1) % StatusMod
                  /\ Sent(n, d)[i].status = status'[n]
                  /\ Sent(n, d)[i].group \in
                        (ownGroups'[n] \ ownGroups[n]) \cup (ownGroups[n] \ ownGroups'[n])

C8_StatusAdvancesBeforeSend == [][C8_Step]_vars

\* A node whose status was 255 has left its group: its status is 0 and the
\* LEAVE it sent carries 0.
C8_Witness ==
    \E n \in Node : \E d \in Node \ {n} :
        /\ status[n] = 0
        /\ \E i \in 1..Len(net[n][d]) :
              net[n][d][i].kind = "LEAVE" /\ net[n][d][i].status = 0

\* C9: the events channel keeps the order in which the actor emitted the
\* events; a node that accepts a HELLO emits ENTER for the sender and, right
\* after it, a JOIN for every group the HELLO lists, in the order of the list;
\* a SHOUT event carries the group and the content of the SHOUT frame at the
\* head of the inbox and comes after an ENTER of its sender.
C9_Step ==
    \A n \in Node :
        LET new == Emitted(n)
        IN  /\ Len(events'[n]) >= Len(events[n])
            /\ SubSeq(events'[n], 1, Len(events[n])) = events[n]
            /\ \A k \in 1..Len(new) :
                  /\ new[k].type = "ENTER" =>
                        LET p == new[k].sender
                            h == Head(net[p][n])
                        IN  /\ net[p][n] # <<>>
                            /\ h.kind = "HELLO"
                            /\ Len(new) = k + Len(h.groups)
                            /\ \A j \in 1..Len(h.groups) :
                                  new[k + j] = Event("JOIN", p, h.groups[j], "")
                  /\ new[k].type = "SHOUT" =>
                        LET p == new[k].sender
                            f == Head(net[p][n])
                        IN  /\ net[p][n] # <<>>
                            /\ f.kind = "SHOUT"
                            /\ new[k].group = f.group
                            /\ new[k].msg = f.content
                            /\ \E i \in 1..Len(events[n]) :
                                  events[n][i].type = "ENTER" /\ events[n][i].sender = p

C9_EnterJoinShoutInOrder == [][C9_Step]_vars

\* B has read nothing yet and its channel holds ENTER of A, JOIN of A to g1
\* and the SHOUT A sent to g1, in that order.
C9_Witness ==
    /\ Len(events["B"]) >= 3
    /\ events["B"][1] = Event("ENTER", "A", "", "")
    /\ events["B"][2] = Event("JOIN", "A", "g1", "")
    /\ events["B"][3] = Event("SHOUT", "A", "g1", "x")

C11_NoShoutAfterLeave ==
    \A n \in Node : \A p \in Node \ {n} : \A g \in Group :
        LET e == events[n]
            about == {i \in 1..Len(e) : /\ e[i].type \in {"JOIN", "LEAVE"}
                                         /\ e[i].sender = p /\ e[i].group = g}
            last == CHOOSE i \in about : \A j \in about : j <= i
        IN  (about # {} /\ e[last].type = "LEAVE") =>
                /\ Has(peerGroups[n], g) /\ p \notin peerGroups[n][g]
                /\ life[n] \in {"new", "running"} =>
                      \A c \in Content, fails \in SUBSET Node :
                          cmdShout(n, g, c, fails).out[p] = <<>>

\* A running node has processed the JOIN and then the LEAVE of a peer that is
\* still connected: a shout to the group would reach the peer were it a member.
C11_Witness ==
    \E n \in Node : \E p \in Node \ {n} :
        /\ life[n] = "running"
        /\ Len(events[n]) >= 3
        /\ events[n][Len(events[n]) - 1] = Event("JOIN", p, "g1", "")
        /\ events[n][Len(events[n])] = Event("LEAVE", p, "g1", "")
        /\ p \in DOMAIN peers[n]
        /\ peers[n][p].connected

\* C12: a node emits a SHOUT event only for a group it is itself a member of
\* (the group is in n.ownGroups) when the event is emitted.
C12_Step ==
    \A n \in Node : \A k \in 1..Len(Emitted(n)) :
        Emitted(n)[k].type = "SHOUT" => Emitted(n)[k].group \in ownGroups[n]

C12_ShoutEventOnlyForOwnGroup == [][C12_Step]_vars

\* C18: when the zero-port beacon of p is handled by n and p is in n.peers,
\* p is deleted from n.peers and from every peer group and exactly one EXIT
\* event for p is emitted; when p is not in n.peers, nothing of n changes and
\* no event is emitted; no frame is sent either way.
C18_Step ==
    \A n \in Node : \A p \in Node \ {n} :
        (n \in bye[p] /\ n \notin bye'[p]) =>
            /\ net' = net
            /\ IF p \in DOMAIN peers[n]
               THEN /\ peers'[n] = Del(peers[n], p)
                    /\ DOMAIN peerGroups'[n] = DOMAIN peerGroups[n]
                    /\ \A g \in DOMAIN peerGroups[n] :
                          peerGroups'[n][g] = peerGroups[n][g] \ {p}
                    /\ Emitted(n) = <<EventOf("EXIT", peers[n][p], "", "")>>
               ELSE /\ peers'[n] = peers[n]
                    /\ peerGroups'[n] = peerGroups[n]
                    /\ events'[n] = events[n]

C18_ZeroPortBeaconRemovesPeer == [][C18_Step]_vars

\* The zero-port beacon of a stopped node has removed it from a node that had
\* it in a peer group: the EXIT is the last event and the group is empty.
C18_Witness ==
    \E n \in Node : \E p \in Node \ {n} :
        /\ life[p] = "stopped"
        /\ n \notin bye[p]
        /\ p \notin DOMAIN peers[n]
        /\ Has(peerGroups[n], "g1")
        /\ Len(events[n]) >= 3
        /\ events[n][Len(events[n])] = Event("EXIT", p, "", "")
        /\ \E i \in 1..Len(events[n]) : events[n][i] = Event("JOIN", p, "g1", "")

\* The HELLO of p that n accepts in this step: the frame at the head of the
\* link from p, when the step puts the ENTER event of p on the channel.
AcceptedHello(n, p) ==
    IF /\ net[p][n] # <<>>
       /\ Head(net[p][n]).kind = "HELLO"
       /\ net'[p][n] = Tail(net[p][n])
       /\ p \in DOMAIN peers'[n]
       /\ \E k \in 1..Len(Emitted(n)) :
             Emitted(n)[k].type = "ENTER" /\ Emitted(n)[k].sender = p
    THEN {Head(net[p][n])}
    ELSE {}

\* C13 as stated: when n accepts the HELLO of p, the record n keeps of p holds
\* exactly the name and the headers p had when it sent the HELLO, and the ENTER
\* event carries the same name and headers.
C13_StepExact ==
    \A n \in Node : \A p \in Node \ {n} : \A m \in AcceptedHello(n, p) :
        /\ peers'[n][p].name = m.said[1].name
        /\ peers'[n][p].headers = m.said[1].headers
        /\ \A k \in 1..Len(Emitted(n)) :
             Emitted(n)[k].type = "ENTER" =>
                 /\ Emitted(n)[k].name = m.said[1].name
                 /\ Emitted(n)[k].headers = m.said[1].headers

C13_RecordHoldsExactNameAndHeaders == [][C13_StepExact]_vars

\* The commands that are answered on the replies channel.
Answered == {"UUID", "NAME", "ADDR", "HEADER", "HEADERS", "START", "SET ENDPOINT",
             "GOSSIP BIND", "GOSSIP CONNECT", "GOSSIP PORT", "STOP"}

\* The number of replies the handling of the command named c is to put.
Expected(c) == IF c \in Answered THEN 1 ELSE 0

Replied(n) == Len(replies'[n]) - Len(replies[n])

\* C14: the handling of a command puts exactly one reply when the command is
\* uuid, name, addr, header, headers, start, set-endpoint, gossip-bind,
\* gossip-connect, gossip-port or stop, and no reply when it is set-name,
\* set-header, set-verbose, set-port, join, leave, whisper or shout, on every
\* path.  (The reply to stop is the one the goroutine of cmdStop puts, once.)
C14_Step ==
    \A n \in Node :
        /\ \A c \in Commands : RecvFromAPI(n, c) => Replied(n) = Expected(c.cmd)
        /\ Start(n) => Replied(n) = Expected("START")
        /\ \A g \in Group : Join(n, g) => Replied(n) = Expected("JOIN")
        /\ \A g \in Group : Leave(n, g) => Replied(n) = Expected("LEAVE")
        /\ \A g \in Group, c \in Content :
             Shout(n, g, c) => Replied(n) = Expected("SHOUT")
        /\ \A id \in Node \ {n}, c \in Content :
             Whisper(n, id, c) => Replied(n) = Expected("WHISPER")
        /\ Stop(n) => Replied(n) = 0
        /\ StopReply(n) =>
             /\ Replied(n) = Expected("STOP")
             /\ "" \notin {replies[n][k] : k \in 1..Len(replies[n])}

C14_RepliesPerCommand == [][C14_Step]_vars

\* The reply to cmdStop is on the replies channel of n.
StopReplied(n) == "" \in {replies[n][k] : k \in 1..Len(replies[n])}

\* C15: the reply to stop is put only after the whole shutdown routine has run
\* (the beacon is closed, every peer is disconnected and deleted) and the actor
\* has left its loop; once it is put the actor of n handles nothing any more:
\* the state of n does not change, n sends no frame and takes none from its
\* inbox.
C15_Step ==
    \A n \in Node :
        /\ (~StopReplied(n) /\ StopReplied(n)') =>
               /\ life[n] = "stopped"
               /\ beacon[n].terminated
               /\ beacon[n].transmit = "zero"
               /\ peers[n] = EmptyMap
        /\ StopReplied(n) =>
               /\ life'[n] = life[n]
               /\ peers'[n] = peers[n]
               /\ peerGroups'[n] = peerGroups[n]
               /\ ownGroups'[n] = ownGroups[n]
               /\ status'[n] = status[n]
               /\ events'[n] = events[n]
               /\ replies'[n] = replies[n]
               /\ name'[n] = name[n]
               /\ headers'[n] = headers[n]
               /\ beacon'[n] = beacon[n]
               /\ \A p \in Node \ {n} :
                    /\ Len(net'[n][p]) <= Len(net[n][p])
                    /\ Len(net'[p][n]) >= Len(net[p][n])
                    /\ SubSeq(net'[p][n], 1, Len(net[p][n])) = net[p][n]

C15_StopReplyAfterShutdown == [][C15_Step]_vars

\* A node that had a peer has been stopped and has answered the stop, and a
\* frame of the peer waits in its inbox.
C15_Witness ==
    \E n \in Node : \E p \in Node \ {n} :
        /\ StopReplied(n)
        /\ life[n] = "stopped"
        /\ \E k \in 1..Len(events[n]) :
             events[n][k].type = "ENTER" /\ events[n][k].sender = p
        /\ net[p][n] # <<>>

\* C19: when the beacon of a stopped node is closed, a signal worker has
\* written the zero-port frame to the network, whatever the order of the steps
\* of the shutdown routine and the ticks of the workers.
C19_ZeroPortBeaconIsTransmitted ==
    \A n \in Node :
        beacon[n].terminated =>
            \E k \in 1..Len(udp[n]) : udp[n][k] = "zero"

\* The reaper of n removes its record of p in this step.
Reaped(n, p) ==
    /\ ticks' # ticks
    /\ p \in DOMAIN peers[n]
    /\ p \notin DOMAIN peers'[n]

\* The time that passed at n in a step of its reaper, at most one
\* reapInterval.
Passed(n) ==
    IF clock'[n] = clock[n] THEN ReapInterval * Grain
    ELSE (clock'[n] - clock[n] + Grain) % Grain

\* C16: when nothing of p has reached n since the time t (the last refresh of
\* the record), the reaper of n removes p and emits EXIT at a tick that is not
\* earlier than the record's expiredAt, t + peerExpired, and not later than
\* t + peerExpired + reapInterval.
C16_Step ==
    \A n \in Node : \A p \in Node \ {n} :
        /\ Reaped(n, p) =>
               /\ peers[n][p].age + Passed(n) >= PeerExpired * Grain
               /\ peers[n][p].age + Passed(n) <= (PeerExpired + ReapInterval) * Grain
               /\ \E k \in 1..Len(Emitted(n)) :
                     Emitted(n)[k].type = "EXIT" /\ Emitted(n)[k].sender = p
        /\ (ticks' # ticks /\ p \in DOMAIN peers[n] /\ p \in DOMAIN peers'[n]) =>
               peers'[n][p].age < (PeerExpired + ReapInterval) * Grain

C16_ReapedBetweenExpiredAndOneTickLater == [][C16_Step]_vars

\* C17: a peer that stays silent gets exactly one PING between its evasiveAt
\* and its expiredAt: never a second one since the last refresh of its record,
\* and one has been sent when the reaper removes it.
C17_Step ==
    \A n \in Node : \A p \in Node \ {n} :
        /\ p \in DOMAIN peers'[n] => peers'[n][p].pings <= 1
        /\ Reaped(n, p) => peers[n][p].pings = 1

C17_OnePingWhileEvasive == [][C17_Step]_vars

\* The frame of p that n accepts in this step, without a panic.
Accepted(n, p) ==
    IF /\ net[p][n] # <<>>
       /\ net'[p][n] = Tail(net[p][n])
       /\ life'[n] # "panicked"
       /\ p \in DOMAIN peers'[n]
       /\ peers'[n][p].rxN >= 1
       /\ peers'[n][p].rxLast = Head(net[p][n]).sequence
       /\ p \in DOMAIN peers[n] => peers'[n][p].rxN # peers[n][p].rxN
    THEN {Head(net[p][n])}
    ELSE {}

\* C20: while the events channel of n is full, a handler of n that has an
\* event to emit drops it and completes: the channel is as it was, and the
\* state change of the handler is applied: a JOIN or LEAVE changes the group's
\* members, a HELLO makes the peer ready and joins it to its groups, a
\* zero-port beacon removes the peer.
C20_Step ==
    \A n \in Node :
        Len(events[n]) = EventsCap =>
            /\ events'[n] = events[n]
            /\ \A p \in Node \ {n} :
                 /\ \A m \in Accepted(n, p) :
                      /\ m.kind = "JOIN" =>
                             /\ Has(peerGroups'[n], m.group)
                             /\ p \in peerGroups'[n][m.group]
                      /\ m.kind = "LEAVE" =>
                             /\ Has(peerGroups'[n], m.group)
                             /\ p \notin peerGroups'[n][m.group]
                      /\ m.kind = "HELLO" =>
                             /\ peers'[n][p].ready
                             /\ \A k \in 1..Len(m.groups) :
                                  /\ Has(peerGroups'[n], m.groups[k])
                                  /\ p \in peerGroups'[n][m.groups[k]]
                 /\ (n \in bye[p] /\ n \notin bye'[p]) => p \notin DOMAIN peers'[n]

C20_FullChannelDropsEventKeepsChange == [][C20_Step]_vars

\* With its events channel full, A has taken the JOIN of B: B is a member of
\* g1 at A, and no event has been added.
C20_Witness ==
    /\ Len(events["A"]) = EventsCap
    /\ Has(peerGroups["A"], "g1")
    /\ "B" \in peerGroups["A"]["g1"]
    /\ "B" \in DOMAIN peers["A"]
    /\ peers["A"]["B"].rxN = SeqMod

\* C21: a record that a transport error has disconnected does not stay in
\* n.peers for ever: it is eventually removed (or connected again), though
\* its peer goes on announcing itself.
C21_DisconnectedRecordIsRemoved ==
    \A n \in Node : \A p \in Node \ {n} :
        (p \in DOMAIN peers[n] /\ ~peers[n][p].connected)
            ~> (p \notin DOMAIN peers[n] \/ peers[n][p].connected)

\* C22: after every step no two connected records of n.peers have the same
\* endpoint, and when a step has created a connected record at endpoint E,
\* every record that was at E before the step is disconnected after it.
C22_Step ==
    \A n \in Node :
        /\ \A x \in DOMAIN peers'[n] : \A y \in DOMAIN peers'[n] \ {x} :
               (peers'[n][x].connected /\ peers'[n][y].connected)
                   => peers'[n][x].endpoint # peers'[n][y].endpoint
        /\ \A x \in DOMAIN peers'[n] \ DOMAIN peers[n] :
               peers'[n][x].connected
                   => \A y \in DOMAIN peers[n] :
                          peers[n][y].endpoint = peers'[n][x].endpoint
                              => /\ y \in DOMAIN peers'[n]
                                 /\ ~peers'[n][y].connected
                                 /\ peers'[n][y].endpoint = ""

C22_OneConnectedRecordPerEndpoint == [][C22_Step]_vars

\* A record of B's later identity is connected at the endpoint where the
\* record of the former identity was, and that record is still in the map.
C22_Witness ==
    /\ Has(peers["A"], Former) /\ Has(peers["A"], "B")
    /\ peers["A"]["B"].connected /\ peers["A"]["B"].endpoint = EndpointOf(Former)
    /\ ~peers["A"][Former].connected

\* C23: once a node has been started successfully, no step changes its
\* name, headers, beacon port, endpoint, bound flag, gossip engine or
\* reaper tickers: the configuration commands and a further start are
\* rejected or without effect.
C23_Step ==
    \A n \in Node :
        life[n] = "running" =>
            /\ name'[n] = name[n]
            /\ headers'[n] = headers[n]
            /\ beaconPort'[n] = beaconPort[n]
            /\ endpoint'[n] = endpoint[n]
            /\ bound'[n] = bound[n]
            /\ gossip'[n] = gossip[n]
            /\ timers'[n] = timers[n]

C23_ConfigurationFrozenAfterStart == [][C23_Step]_vars

\* The step has put a reply with an error to the command named tag.
ErrorReply(n, tag) ==
    /\ Len(replies'[n]) = Len(replies[n]) + 1
    /\ replies'[n][Len(replies'[n])] = tag
    /\ Len(replies'[n]) \in errs'[n]

\* C24: a start or a set-endpoint that replies with an error leaves the
\* endpoint, the bound flag, the port, the beacon port, the reaper tickers and
\* the discovery subscriptions of the node as they were.
C24_Step ==
    \A n \in Node :
        (ErrorReply(n, "START") \/ ErrorReply(n, "SET ENDPOINT")) =>
            /\ endpoint'[n] = endpoint[n]
            /\ bound'[n] = bound[n]
            /\ port'[n] = port[n]
            /\ beaconPort'[n] = beaconPort[n]
            /\ timers'[n] = timers[n]
            /\ subs'[n] = subs[n]

C24_FailedStartLeavesStateAsBefore == [][C24_Step]_vars

\* C25: a node with a gossip engine has beacon port 0.
C25_GossipMeansNoBeaconPort ==
    \A n \in Node : gossip[n] => beaconPort[n] = 0

\* C26: the endpoint of a node is assigned at most once and only when the
\* inbox is bound, and no start ends in the panic "Endpoint is already set".
C26_Step ==
    \A n \in Node :
        /\ endpoint[n] # "" => endpoint'[n] = endpoint[n]
        /\ endpoint'[n] # endpoint[n] => bound'[n]
        /\ ~(timers'[n] # timers[n] /\ life'[n] = "panicked")

C26_EndpointAssignedOnceNoPanic == [][C26_Step]_vars

\* C27: a map returned by the headers query is a copy: a step that is not
\* the application's own write leaves what the application reads in it
\* unchanged, and the application's write into it leaves the headers of the
\* node unchanged.
C27_Step ==
    \A n \in Node : \A i \in 1..Len(got[n]) :
        IF \E k \in Keys : Mutate(n, k)
        THEN headers'[n] = headers[n]
        ELSE MapOf(got'[n][i], headers'[n]) = MapOf(got[n][i], headers[n])

C27_ReturnedHeadersAreACopy == [][C27_Step]_vars

\* C28: a listener decides to pass a datagram on only when the bytes it has
\* read start with the filter of the beacon and, with noecho set, differ from
\* the frame the beacon transmits; and only the signal of such a decision is
\* appended to the signals channel.
C28_Step ==
    \A n \in Node :
        /\ (beacon[n].pend = <<>> /\ beacon'[n].pend # <<>> /\ beacon'[n].pend[1].send)
              => /\ HasPrefix(beacon'[n].pend[1].sig.transmit, beacon[n].filter)
                 /\ beacon[n].noecho
                      => beacon'[n].pend[1].sig.transmit
                             # FrameOf(n, beacon[n].transmit)
        /\ Len(beacon'[n].signals) > Len(beacon[n].signals)
              => /\ beacon[n].pend # <<>>
                 /\ beacon[n].pend[1].send
                 /\ beacon'[n].signals = Append(beacon[n].signals, beacon[n].pend[1].sig)

C28_SignalsMatchFilterAndAreNoEcho == [][C28_Step]_vars

\* The beacon of B is on the channel of the beacon of A, which has noecho
\* set, the filter "ZRE" and a frame to transmit.
C28_Witness ==
    /\ beacon["A"].noecho
    /\ beacon["A"].filter = ZRE
    /\ beacon["A"].transmit = "port"
    /\ beacon["A"].signals # <<>>
    /\ Head(beacon["A"].signals).transmit = FrameOf("B", "port")

\* C29: the handler of a signal read from a datagram of more than beaconMax
\* bytes, or of a beacon with another version, leaves the peers of the node
\* as they are.
C29_Step ==
    \A n \in Node :
        (/\ beacon[n].signals # <<>>
         /\ beacon'[n].signals = Tail(beacon[n].signals)
         /\ \/ Head(beacon[n].signals).size > BeaconMax
            \/ Decode(Head(beacon[n].signals).transmit).version # BeaconVersion)
            => peers'[n] = peers[n]

C29_LongOrForeignDatagramIsDropped == [][C29_Step]_vars

\* C30: a message of any kind with valid field values that has been
\* marshalled and unmarshalled is read back without error with the same
\* kind, sequence and fields.
C30_UnmarshalOfMarshalIsTheMessage ==
    codec.phase = "done" => (codec.out.ok /\ codec.out.m = codec.m)

\* A HELLO with a name of StringMax bytes, a group name longer than that
\* and two headers has been marshalled and unmarshalled.
C30_Witness ==
    /\ codec.phase = "done"
    /\ codec.m.kind = "HELLO"
    /\ Len(codec.m.Name) = StringMax
    /\ Len(codec.m.Groups) = 3
    /\ Len(codec.m.Groups[2]) > StringMax
    /\ Cardinality(DOMAIN codec.m.Headers) = 2
    /\ codec.m.sequence = SeqMod - 1

\* C31: msg.Clone of a message of any kind, a HELLO with groups and headers
\* included, returns a message with the same kind, sequence and fields; and a
\* change of the sequence, groups, headers or content of the message leaves
\* the clone as it was, a change of the clone leaves the message as it was.
C31_Step ==
    /\ CloneMsg => (~codec'.copy.panic /\ codec'.copy.m = codec.m)
    /\ \A f \in {"sequence", "Groups", "Headers", "Content"} :
         /\ Change("m", f) => codec'.copy.m = codec.copy.m
         /\ Change("copy", f) => codec'.m = codec.m

C31_CloneIsEqualAndSeparate == [][C31_Step]_vars

\* C32: when one frame of a peer is lost and the peer goes on sending in
\* order, the receiver drops the frame that reveals the gap and accepts and
\* dispatches the frames after it.  On a link where at most one frame is lost
\* and no record is created anew, the frame whose sequence is three after the
\* last accepted one follows the frame that revealed the gap: the ready
\* record accepts it.
C32_Step ==
    \A n \in Node : \A p \in Node \ {n} :
        ( /\ RecvFromPeer(n, p)
          /\ Has(peers[n], p)
          /\ peers[n][p].ready
          /\ Head(net[p][n]).sequence = (peers[n][p].wantSequence + 3) % SeqMod )
        => ( /\ Has(peers'[n], p)
             /\ peers'[n][p].rxN = peers[n][p].rxN + 1
             /\ peers'[n][p].rxLast = Head(net[p][n]).sequence )

C32_FramesAfterTheGapAreAccepted == [][C32_Step]_vars

\* C33: the handshake quiesces: after a discovery or a re-discovery, also
\* one where a node removed its record of the other and created it anew while
\* the other kept its ready record and kept sending, only finitely many
\* HELLOs are exchanged when nothing fails any more: from some moment on no
\* HELLO is in flight between running nodes.
C33_HandshakeQuiesces ==
    <>[](\/ \E n \in Node : life[n] = "panicked"
         \/ \A s \in Node : \A d \in Node :
              \A i \in 1..Len(net[s][d]) : net[s][d][i].kind # "HELLO")

\* C34: every record of the peers map that is ready is connected (it has a
\* mailbox to send on), whatever beacons, HELLOs, failed sends and purges of
\* an endpoint came before.
C34_ReadyRecordIsConnected ==
    \A n \in Node : \A p \in DOMAIN peers[n] :
        peers[n][p].ready => peers[n][p].connected

\* C35: on a node's events channel (which never overflows here), every EXIT,
\* JOIN, LEAVE, WHISPER and SHOUT of a sender comes after an ENTER of that
\* sender with no EXIT of that sender in between.
C35_EventsOfASenderFollowItsEnter ==
    \A n \in Node : \A j \in 1..Len(events[n]) :
        LET e == events[n]
        IN  e[j].type \in {"EXIT", "JOIN", "LEAVE", "WHISPER", "SHOUT"} =>
                \E i \in 1..(j - 1) :
                    /\ e[i].type = "ENTER"
                    /\ e[i].sender = e[j].sender
                    /\ \A k \in (i + 1)..(j - 1) :
                          ~(e[k].type = "EXIT" /\ e[k].sender = e[j].sender)

\* ------------------------------------------------------ the calls of the facade
\* The application calls the methods of its Gyre object; a method puts a
\* command on the unbuffered cmds channel and, when the command has a reply,
\* reads it from the unbuffered replies channel, each within timeout.
FacadeCmd == 3

Calls ==
    {cmd(c) : c \in {"NAME", "GOSSIP BIND", "GOSSIP PORT"}}
    \cup {[cmd("SET NAME") EXCEPT !.name = Str(<<"app", "n">>, 3)]}
    \cup {[cmd("SET HEADER") EXCEPT !.key = Str(<<"app", "k">>, 1), !.value = v] :
            v \in {"v", "w"}}
    \cup {[cmd("HEADER") EXCEPT !.key = Str(<<"app", "k">>, 1)]}

InitFacade ==
    /\ life = [n \in Node |-> "new"]
    /\ endpoint = [n \in Node |-> ""]
    /\ status = [n \in Node |-> 0]
    /\ ownGroups = [n \in Node |-> {}]
    /\ peers = [n \in Node |-> EmptyMap]
    /\ peerGroups = [n \in Node |-> EmptyMap]
    /\ events = [n \in Node |-> <<>>]
    /\ net = [s \in Node |-> [d \in Node |-> <<>>]]
    /\ bye = [n \in Node |-> {}]
    /\ created = [n \in Node |-> 0]
    /\ name = [n \in Node |-> NewName(n)]
    /\ headers = [n \in Node |-> EmptyMap]
    /\ beaconPort = [n \in Node |-> ZreDiscoveryPort]
    /\ gossip = [n \in Node |-> FALSE]
    /\ replies = [n \in Node |-> <<>>]
    /\ bound = [n \in Node |-> FALSE]
    /\ port = [n \in Node |-> 0]
    /\ timers = [n \in Node |-> 0]
    /\ subs = [n \in Node |-> 0]
    /\ errs = [n \in Node |-> {}]
    /\ got = [n \in Node |-> <<>>]
    /\ codec = NoCodec
    /\ gyre = [n \in Node |-> NewGyre]
    /\ beacon = [n \in Node |-> NewBeacon]
    /\ udp = [n \in Node |-> <<>>]
    /\ clock = [n \in Node |-> 0]
    /\ cmdsLeft = FacadeCmd
    /\ faults = MaxFault
    /\ ticks = MaxTick

\* if g.name != "" / if header, ok := g.headers[key]; ok: the call is answered
\* from the cache of the facade.
Cached(n, c) ==
    \/ c.cmd = "NAME" /\ gyre[n].name # Str(<<>>, 0)
    \/ c.cmd = "HEADER" /\ Has(gyre[n].headers, c.key)

\* A method of the facade up to its send on g.cmds. A cached value is returned
\* at once. Otherwise the actor takes the command in its select and runs the
\* handler; a handler with a reply ends at n.replies <- r, where the actor
\* waits for the caller, and the caller waits in its second select. The
\* handler of GOSSIP PORT has taken longer than timeout when RecvResp has
\* used up its 5 seconds after SendCmd returned.
Call(n, c) ==
    /\ gyre[n].pc = "idle"
    /\ IF Cached(n, c)
       THEN /\ gyre' = [gyre EXCEPT ![n].ret =
                           IF c.cmd = "NAME" THEN Returned(c, gyre[n].name, "", TRUE)
                           ELSE Returned(c, Str(<<>>, 0), gyre[n].headers[c.key], TRUE)]
            /\ UNCHANGED <<life, endpoint, status, ownGroups, peers, peerGroups, events,
                           net, bye, created, name, headers, beaconPort, gossip, replies,
                           beacon, udp, clock, boot, got, codec, cmdsLeft, faults, ticks>>
       ELSE /\ gyre[n].actor = "select"
            /\ \E ext \in ExtOf(c) :
                 /\ Handle(n, c, ext)
                 /\ LET st == recvFromAPI(n, c, ext)
                    IN  gyre' = [gyre EXCEPT ![n] =
                          IF Len(st.replies) > Len(replies[n])
                          THEN [@ EXCEPT !.pc = "wait", !.actor = "reply", !.cmd = c,
                                         !.offer = [err |-> st.err, name |-> st.name,
                                                    header |-> IF Has(st.headers, c.key)
                                                               THEN st.headers[c.key]
                                                               ELSE ""],
                                         !.slow = /\ c.cmd = "GOSSIP PORT"
                                                  /\ st.gossip
                                                  /\ ~ext.send
                                                  /\ ext.recv]
                          ELSE [@ EXCEPT !.ret = Returned(c, Str(<<>>, 0), "", TRUE)]]

\* case r := <-g.replies: the caller takes the reply the actor holds out; the
\* actor goes back to its select. Name() and Header() fill the caches.
Reply(n) ==
    /\ gyre[n].pc = "wait"
    /\ gyre[n].actor = "reply"
    /\ LET g == gyre[n]
           c == g.cmd
           taken == [g EXCEPT !.pc = "idle", !.actor = "select"]
       IN  gyre' = [gyre EXCEPT ![n] =
             CASE c.cmd = "NAME" /\ ~g.offer.err ->
                    [taken EXCEPT !.name = g.offer.name,
                                  !.ret = Returned(c, g.offer.name, "", TRUE)]
               [] c.cmd = "HEADER" /\ ~g.offer.err ->
                    [taken EXCEPT !.headers = Put(@, c.key, g.offer.header),
                                  !.ret = Returned(c, Str(<<>>, 0), g.offer.header, TRUE)]
               [] OTHER -> [taken EXCEPT !.ret = Returned(c, Str(<<>>, 0), "", ~g.offer.err)]]
    /\ UNCHANGED <<life, endpoint, status, ownGroups, peers, peerGroups, events,
                   net, bye, created, name, headers, beaconPort, gossip, replies,
                   beacon, udp, clock, boot, got, codec, cmdsLeft, faults, ticks>>

\* case <-time.After(timeout) of the second select: the caller has waited 5
\* seconds for the reply and returns an error; the actor is still in the
\* handler or at n.replies <- r.
GiveUp(n) ==
    /\ gyre[n].pc = "wait"
    /\ gyre[n].slow
    /\ gyre' = [gyre EXCEPT ![n].pc = "idle",
                            ![n].ret = Returned(gyre[n].cmd, Str(<<>>, 0), "", FALSE)]
    /\ UNCHANGED <<life, endpoint, status, ownGroups, peers, peerGroups, events,
                   net, bye, created, name, headers, beaconPort, gossip, replies,
                   beacon, udp, clock, boot, got, codec, cmdsLeft, faults, ticks>>

\* case <-time.After(timeout) of the first select: nobody reads g.cmds, the
\* call returns "Node is not responding".
NotResponding(n, c) ==
    /\ gyre[n].pc = "idle"
    /\ ~Cached(n, c)
    /\ gyre[n].actor # "select"
    /\ gyre' = [gyre EXCEPT ![n].ret = Returned(c, Str(<<>>, 0), "", FALSE)]
    /\ UNCHANGED <<life, endpoint, status, ownGroups, peers, peerGroups, events,
                   net, bye, created, name, headers, beaconPort, gossip, replies,
                   beacon, udp, clock, boot, got, codec, cmdsLeft, faults, ticks>>

NextFacade ==
    \/ \E n \in Node, c \in Calls : Call(n, c)
    \/ \E n \in Node : Reply(n)
    \/ \E n \in Node : GiveUp(n)
    \/ \E n \in Node, c \in Calls : NotResponding(n, c)

SpecFacade == InitFacade /\ [][NextFacade]_vars

\* C36: a call of the facade that gives up waiting for its reply leaves the
\* node usable: the actor is never left at its send on the replies channel
\* with no caller waiting for the reply, so that it returns to its select and
\* serves the commands issued afterwards.
C36_ActorIsNotLeftAtItsReply ==
    \A n \in Node : gyre[n].actor = "reply" => gyre[n].pc = "wait"

\* C38: what Name() and Header(k) return is what the node holds: a call of
\* Name() that returns without error returns n.name, a call of Header(k) that
\* returns without error returns n.headers[k], also when the value was set
\* after an earlier call of Name() or Header(k).
C38_Step ==
    \A n \in Node :
        LET r == gyre'[n].ret
        IN  (r # gyre[n].ret /\ r.ok) =>
              /\ r.call = "NAME" => r.name = name'[n]
              /\ r.call = "HEADER" => /\ Has(headers'[n], r.key)
                                      /\ r.header = headers'[n][r.key]

C38_FacadeReturnsWhatTheNodeHolds == [][C38_Step]_vars

\* ------------------------------------------------- an application that reads late
\* The link of InitFull seen from both sides: the application at A has read
\* nothing since B entered and its events channel is full, the application at
\* B has read nothing either and its channel holds the ENTER and the JOIN of A.
DropCmd == 2
MaxRead == 2

InitDrop ==
    /\ life = [n \in Node |-> "running"]
    /\ endpoint = [n \in Node |-> EndpointOf(n)]
    /\ status = [n \in Node |-> IF n = "A" THEN StatusMod - 1 ELSE StatusMod - 2]
    /\ ownGroups = [n \in Node |-> IF n = "A" THEN {"g1"} ELSE {}]
    /\ peers = [n \in Node |->
                  IF n = "A" THEN [x \in {"B"} |-> linked("B", StatusMod - 2)]
                  ELSE [x \in {"A"} |-> linked("A", StatusMod - 1)]]
    /\ peerGroups = [n \in Node |->
                       [g \in {"g1"} |-> IF n = "B" THEN {"A"} ELSE {}]]
    /\ events = [n \in Node |->
                   IF n = "A"
                   THEN [k \in 1..EventsCap |->
                           IF k = 1 THEN Event("ENTER", "B", "", "")
                           ELSE Event("WHISPER", "B", "", "x")]
                   ELSE <<Event("ENTER", "A", "", ""), Event("JOIN", "A", "g1", "")>>]
    /\ net = [s \in Node |-> [d \in Node |-> <<>>]]
    /\ bye = [n \in Node |-> {}]
    /\ created = [n \in Node |-> 1]
    /\ name = [n \in Node |-> NewName(n)]
    /\ headers = [n \in Node |-> EmptyMap]
    /\ beaconPort = [n \in Node |-> ZreDiscoveryPort]
    /\ gossip = [n \in Node |-> FALSE]
    /\ replies = [n \in Node |-> <<"START">>]
    /\ bound = [n \in Node |-> TRUE]
    /\ port = [n \in Node |-> DynPortFrom]
    /\ timers = [n \in Node |-> 1]
    /\ subs = [n \in Node |-> 1]
    /\ errs = [n \in Node |-> {}]
    /\ got = [n \in Node |-> <<>>]
    /\ codec = NoCodec
    /\ gyre = [n \in Node |-> NewGyre]
    /\ beacon = [n \in Node |-> Publish(Subscribe(NoEcho(NewBeacon), ZRE), "port")]
    /\ udp = [n \in Node |-> <<>>]
    /\ clock = [n \in Node |-> 0]
    /\ cmdsLeft = DropCmd
    /\ faults = MaxFault
    /\ ticks = 0

\* e := <-g.Events(): the application takes the next event and keeps it.
Events(n) ==
    /\ events[n] # <<>>
    /\ Len(gyre[n].read) < MaxRead
    /\ events' = [events EXCEPT ![n] = Tail(@)]
    /\ gyre' = [gyre EXCEPT ![n].read = Append(@, Head(events[n]))]
    /\ UNCHANGED <<name, headers, beaconPort, gossip, udp, clock, boot, got, codec,
                   replies, beacon, life, endpoint, status, ownGroups, peers,
                   peerGroups, net, bye, created, cmdsLeft, faults, ticks>>

NextDrop ==
    \/ \E n \in Node, g \in Group : Join(n, g)
    \/ \E n \in Node, g \in Group : Leave(n, g)
    \/ \E n \in Node : \E p \in Node \ {n} : RecvFromPeer(n, p)
    \/ \E n \in Node : Events(n)

SpecDrop == InitDrop /\ [][NextDrop]_vars

\* The events that went through the events channel of n so far: those the
\* application has taken, then those still in the channel.
seen(n) == gyre[n].read \o events[n]

\* Among the events e of one channel, between an ENTER of a sender and the
\* next EXIT of that sender, the JOIN and LEAVE events of the sender for one
\* group alternate and start with JOIN: the first after the ENTER is a JOIN,
\* a JOIN is followed by a LEAVE and a LEAVE by a JOIN.
Alternate(e) ==
    \A j \in 1..Len(e) :
        e[j].type \in {"JOIN", "LEAVE"} =>
            LET About(k) == /\ e[k].sender = e[j].sender
                            /\ \/ e[k].type \in {"ENTER", "EXIT"}
                               \/ /\ e[k].type \in {"JOIN", "LEAVE"}
                                  /\ e[k].group = e[j].group
                Before == {k \in 1..(j - 1) : About(k)}
            IN  Before # {} =>
                  LET i == CHOOSE k \in Before : \A l \in Before : l <= k
                  IN  /\ e[i].type \in {"ENTER", "LEAVE"} => e[j].type = "JOIN"
                      /\ e[i].type = "JOIN" => e[j].type = "LEAVE"

\* C37: on every events channel the JOIN and LEAVE events of a sender for a
\* group alternate between an ENTER of the sender and its next EXIT, starting
\* with JOIN.
C37_JoinAndLeaveAlternate == \A n \in Node : Alternate(seen(n))

\* C39: an own join of a group the node is already in and an own leave of a
\* group the node is not in change nothing: n.status and n.ownGroups stay as
\* they are, no frame is put on any mailbox and no peer record changes (so a
\* second join of the same group sends no second JOIN).
C39_Step ==
    \A n \in Node : \A g \in Group :
        LET Nothing == /\ status'[n] = status[n]
                       /\ ownGroups'[n] = ownGroups[n]
                       /\ peers'[n] = peers[n]
                       /\ \A d \in Node : Sent(n, d) = <<>>
        IN  /\ (Join(n, g) /\ g \in ownGroups[n]) => Nothing
            /\ (Leave(n, g) /\ g \notin ownGroups[n]) => Nothing

C39_RepeatedJoinOrLeaveChangesNothing == [][C39_Step]_vars

\* B has joined g1 and one more join or leave was served that changed nothing:
\* B has sent A one JOIN and nothing else.
C39_Witness ==
    /\ cmdsLeft = 0
    /\ ownGroups = [n \in Node |-> {"g1"}]
    /\ status = [n \in Node |-> StatusMod - 1]
    /\ peers["B"]["A"].txN = SeqMod
    /\ peers["A"]["B"].txN = SeqMod - 1

\* C40: the listen worker of a beacon never sends on the closed signals
\* channel, however Close interleaves with a datagram that is being received
\* and filtered.
C40_NoSendOnClosedSignals == \A n \in Node : ~beacon[n].panic
====
